---- MODULE Spec2Model ----
(***************************************************************************)
(* Email-attachment ingestion pipeline (email_monitor_fastapi/app).        *)
(*                                                                         *)
(* Part I   the cursor-based mail client (GraphEmailClient) and the        *)
(*          ingestion cycle (EmailMonitor.process_emails), driven by the   *)
(*          scheduler job and by POST /process-now.                        *)
(* Part II  the attachment queue (RedisEmailQueue) with its producers and  *)
(*          the workers' blocking dequeue.                                 *)
(* Part III the attachment workers (AttachmentWorker, WorkerManager).      *)
(* Part IV  the wire format of a queued record (EmailAttachmentData).      *)
(* Part V   the handling of one message and its attachments                *)
(*          (EmailMonitor._process_message).                               *)
(* Part VI  the Worker Manager and its worker processes (worker_runner).   *)
(***************************************************************************)
EXTENDS Integers, Sequences, FiniteSets, TLC

(***************************************************************************)
(* Bounds of the model.                                                    *)
(***************************************************************************)
MaxMail == 2        \* messages that ever arrive in the mailbox
PageSize == 1       \* messages the provider puts on one page
MaxCycles == 2      \* ingestion cycles that are ever started

Min(a, b) == IF a <= b THEN a ELSE b
Max(a, b) == IF a >= b THEN a ELSE b

(***************************************************************************)
(* Part I.  Mail client and ingestion cycle.                               *)
(*                                                                         *)
(* A cursor (delta link) is modelled by the mailbox position it stands     *)
(* for: the link issued after a sweep that saw n messages is n.  A         *)
(* next-page link is the position the next page starts after.              *)
(***************************************************************************)
NoCursor == 0 - 1       \* delta_link is None / delta_link.txt does not exist
EmptyCursor == 0 - 2    \* the empty string: a truncated delta_link.txt

\* Python truthiness of a link: None and "" are falsy
Truthy(link) == link >= 0

\* the two callers of monitor.process_emails
Cycles == {"timer", "trigger"}

\* a mailbox entry: a tombstone ("@removed") or a message with its sender
Senders == {"grp", "other"}
MailItems == {[removed |-> FALSE, sender |-> "grp"],
              [removed |-> FALSE, sender |-> "other"],
              [removed |-> TRUE, sender |-> "other"]}

\* what writing delta_link.txt can do: succeed, fail before the file is
\* opened (file as it was), fail after open(..., 'w') truncated it
SaveOutcomes == {"ok", "unchanged", "truncated"}

VARIABLES
    mailbox,        \* provider side: sequence of MailItems, message id = index
    azure_configured,   \* EmailMonitor.azure_configured
    email_groups,   \* EmailMonitor.email_groups (set of sender substrings)
    delta_link,     \* GraphEmailClient.delta_link
    delta_file,     \* contents of delta_link.txt
    access_token,   \* GraphEmailClient.access_token (FALSE = None)
    stats,          \* EmailMonitor.stats
    cycle,          \* per caller: position in process_emails and its locals
    started,        \* number of cycles started so far
    handed,         \* history: how often each message id reached _process_message
    handedBy,       \* history: the ids each caller handed to _process_message
    honest,         \* history: every finished sweep ended with a delta link
    newest          \* history: the newest cursor any sweep obtained

ivars == <<mailbox, azure_configured, email_groups, delta_link, delta_file, access_token, stats,
           cycle, started, handed, handedBy, honest, newest>>

\* the state of Part II
VARIABLES
    queue,          \* the Redis list email_attachments
    prod,           \* per producer: position in the enqueue call and its locals
    offered,        \* per producer: records built so far
    lastDeq,        \* history: per producer, the number of the record a worker's
                    \* brpop returned last (0: none yet)
    removed_count   \* what the last clear_queue returned

qvars == <<queue, prod, offered, lastDeq, removed_count>>

\* the state of Part III
VARIABLES
    worker,         \* per worker process: position in AttachmentWorker.run, the
                    \* record it holds, the locals of _run_pipeline, its stats
    taken,          \* history: per record, how often a brpop returned it
    reported,        \* history: per record, the outcomes workers reported for it
    results,        \* per record, the result files in processing_results/
    lastRun,        \* history: the _run_pipeline call that returned last
    lost,           \* history: records held by a worker process when it died
    crashes,        \* history: worker processes that died so far
    temp_dir,       \* per record, whether a file of it lies in WORKER_TEMP_DIR
    unparsed        \* history: per worker, the elements it could not parse

wvars == <<worker, taken, reported, results, lastRun, lost, crashes, temp_dir,
           unparsed>>

\* the state of Part IV
VARIABLES
    wire_pc,        \* how far the record has travelled
    attachment_data,    \* the EmailAttachmentData record the producer built
    data_dict,      \* attachment_data.to_dict()
    direct,         \* EmailAttachmentData.from_dict(data_dict)
    raw_data,       \* the bytes stored in the Redis list
    parsed          \* what the worker's _parse_queue_item returned

xvars == <<wire_pc, attachment_data, data_dict, direct, raw_data, parsed>>

\* the state of Part V
VARIABLES
    use_redis_queue,    \* EmailMonitor: self.use_redis_queue and self.redis_queue
    given,          \* history: the message the last _process_message call got
    last,           \* history: the _process_message call that ended last
    tally,          \* history: what the message loop of the running cycle did
    authFailure     \* history: the authenticate() call that failed last

mvars == <<use_redis_queue, given, last, tally, authFailure>>

\* the state of Part VI
VARIABLES
    running,        \* WorkerManager.running
    workers,        \* WorkerManager.workers: the process handles, by slot
    manager_stats,  \* WorkerManager.stats
    alive,          \* the worker processes for which is_alive() holds
    spawned,        \* history: processes started so far (the next pid - 1)
    deaths,         \* history: worker processes that died on their own
    starts,         \* history: calls of start_workers so far
    stop,           \* position of the running stop_workers call
    log             \* history: what the last stop_workers did, in order

gvars == <<running, workers, manager_stats, alive, spawned, deaths, starts,
           stop, log>>

\* the attachment directory of Direct mode and the queue's peek endpoint
VARIABLES
    message_files,  \* what lies under EmailMonitor.attachments_dir for the
                    \* message of the last _process_message call
    clock,          \* datetime.now(), in seconds
    peeked          \* the last answer of GET /redis-queue/peek

svars == <<message_files, clock, peeked>>

\* what the actions of one part leave alone in the other parts
exceptIngest == <<qvars, wvars, xvars, gvars, svars, use_redis_queue, given, last, tally>>
exceptQueue == <<ivars, wvars, xvars, mvars, gvars, svars>>

IdleFrame == [pc |-> "idle", url |-> 0, new_messages |-> <<>>, messages |-> <<>>,
              idx |-> 0, startLink |-> NoCursor, startFile |-> NoCursor,
              obtained |-> NoCursor, failed |-> FALSE, pages |-> 0,
              discarded |-> 0, visited |-> <<>>]

\* EmailMonitor.__init__: _check_azure_config found the Azure settings
\* (configured) or not (demo mode)
Constructed(configured) ==
    /\ azure_configured = configured
    /\ mailbox = <<>>
    /\ email_groups \in {{}, {"grp"}}
    /\ delta_link = NoCursor
    /\ delta_file = NoCursor
    /\ access_token = FALSE
    /\ stats = [total_runs |-> 0, messages_processed |-> 0,
                attachments_processed |-> 0, attachments_queued |-> 0,
                queue_errors |-> 0, errors |-> 0]
    /\ cycle = [c \in Cycles |-> IdleFrame]
    /\ started = 0
    /\ handed = [m \in 1..MaxMail |-> 0]
    /\ handedBy = [c \in Cycles |-> {}]
    /\ honest = TRUE
    /\ newest = NoCursor

IngestInit == Constructed(TRUE)
DemoInit == Constructed(FALSE)

\* ---- provider ------------------------------------------------------------

\* the ids on the page that starts after position pos
PageItems(pos) ==
    [i \in 1..Min(PageSize, Len(mailbox) - pos) |-> pos + i]

\* the responses the delta endpoint can give for a page request: a page with a
\* next link while more remains, or (a provider that issues a cursor early)
\* such a page with a delta link as well; a last page with the new delta
\* link, or (a provider that ends the sweep without issuing a cursor) a last
\* page with neither link
ProviderPage(pos) ==
    LET items == PageItems(pos)
        reached == pos + Len(items)
    IN  IF reached < Len(mailbox)
        THEN {[value |-> items, next |-> reached, delta |-> NoCursor],
              [value |-> items, next |-> reached, delta |-> reached]}
        ELSE {[value |-> items, next |-> NoCursor, delta |-> Len(mailbox)],
              [value |-> items, next |-> NoCursor, delta |-> NoCursor]}

\* ---- GraphEmailClient ----------------------------------------------------

\* _save_delta_link: writes only a truthy link; any failure is swallowed
SaveDeltaLink(link, file, outcome) ==
    IF ~Truthy(link) THEN file
    ELSE CASE outcome = "ok" -> link
           [] outcome = "unchanged" -> file
           [] outcome = "truncated" -> EmptyCursor

\* get_new_messages: filter out deleted items
NotRemoved(ids) == SelectSeq(ids, LAMBDA m : ~mailbox[m].removed)

\* get_new_messages: filter by email groups if specified
GroupFilter(ids) ==
    IF email_groups # {} /\ ids # <<>>
    THEN SelectSeq(ids, LAMBDA m : \E g \in email_groups : g = mailbox[m].sender)
    ELSE ids

\* get_new_messages: the url the sweep starts from
StartUrlFullSync(link) == 0
StartUrl(link) == IF Truthy(link) THEN link ELSE 0

\* get_new_messages: self.delta_link after a page: only a delta link is stored
CursorAfterPageStoresNextLink(link, resp) ==
    IF Truthy(resp.delta) THEN resp.delta
    ELSE IF Truthy(resp.next) THEN resp.next ELSE link
CursorAfterPage(link, resp) ==
    IF Truthy(resp.delta) THEN resp.delta ELSE link

\* get_new_messages: what the call returns when a page request raised
FailedFetchResultKeepsPages(acc) == acc
FailedFetchResult(acc) == <<>>

\* ---- EmailMonitor.process_emails ----------------------------------------

StartCycle(c) ==
    /\ azure_configured
    /\ cycle[c].pc = "idle"
    /\ started < MaxCycles
    /\ started' = started + 1
    /\ cycle' = [cycle EXCEPT ![c] = [IdleFrame EXCEPT !.pc = "authenticating"]]
    /\ UNCHANGED <<azure_configured, mailbox, email_groups, delta_link, delta_file, access_token,
                   stats, handed, handedBy, honest, newest>>
    /\ UNCHANGED <<exceptIngest, authFailure>>

\* graph_client.authenticate(): on failure the cycle counts one error and ends
AuthenticateGoesOnWithOldToken(c) ==
    /\ cycle[c].pc = "authenticating"
    /\ \/ /\ access_token' = TRUE
          /\ cycle' = [cycle EXCEPT ![c].pc = "fetching"]
          /\ UNCHANGED <<stats, authFailure>>
       \/ /\ stats' = [stats EXCEPT !.errors = @ + 1]
          /\ cycle' = IF access_token
                      THEN [cycle EXCEPT ![c].pc = "fetching"]
                      ELSE [cycle EXCEPT ![c] = IdleFrame]
          /\ authFailure' = IF access_token THEN "leftover_token" ELSE "no_token"
          /\ UNCHANGED access_token
    /\ UNCHANGED <<azure_configured, mailbox, email_groups, delta_link, delta_file, started,
                   handed, handedBy, honest, newest>>
    /\ UNCHANGED exceptIngest
Authenticate(c) ==
    /\ cycle[c].pc = "authenticating"
    /\ \/ /\ access_token' = TRUE
          /\ cycle' = [cycle EXCEPT ![c].pc = "fetching"]
          /\ UNCHANGED <<stats, authFailure>>
       \/ /\ stats' = [stats EXCEPT !.errors = @ + 1]
          /\ cycle' = [cycle EXCEPT ![c] = IdleFrame]
          /\ authFailure' = IF access_token THEN "leftover_token" ELSE "no_token"
          /\ UNCHANGED access_token
    /\ UNCHANGED <<azure_configured, mailbox, email_groups, delta_link, delta_file, started,
                   handed, handedBy, honest, newest>>
    /\ UNCHANGED exceptIngest

\* get_new_messages up to the first page request: reads the stored cursor
BeginFetch(c) ==
    /\ cycle[c].pc = "fetching"
    /\ cycle' = [cycle EXCEPT ![c] =
                   IF ~access_token
                   THEN [@ EXCEPT !.pc = "fetched", !.messages = <<>>,
                                  !.startLink = delta_link, !.startFile = delta_file]
                   ELSE [@ EXCEPT !.pc = "paging", !.url = StartUrl(delta_link),
                                  !.new_messages = <<>>,
                                  !.startLink = delta_link, !.startFile = delta_file]]
    /\ UNCHANGED <<azure_configured, mailbox, email_groups, delta_link, delta_file, access_token,
                   stats, started, handed, handedBy, honest, newest>>
    /\ UNCHANGED <<exceptIngest, authFailure>>

\* one page request raises: the call returns, cursor untouched
PageFails(c) ==
    /\ cycle' = [cycle EXCEPT ![c] =
                   [@ EXCEPT !.pc = "fetched",
                             !.messages = FailedFetchResult(cycle[c].new_messages),
                             !.failed = TRUE,
                             !.pages = @ + 1,
                             !.discarded = Len(cycle[c].new_messages)]]
    /\ UNCHANGED <<delta_link, delta_file, honest, newest>>

\* one page arrives: accumulate, then delta link / next link / neither
PageArrives(c, resp) ==
    LET acc == cycle[c].new_messages \o GroupFilter(NotRemoved(resp.value))
        link == CursorAfterPage(delta_link, resp)
        page == [pos |-> cycle[c].url, value |-> resp.value, next |-> resp.next,
                 delta |-> resp.delta]
    IN  /\ delta_link' = link
        /\ IF Truthy(resp.delta)
           THEN \E o \in SaveOutcomes :
                  /\ delta_file' = SaveDeltaLink(link, delta_file, o)
                  /\ cycle' = [cycle EXCEPT ![c] =
                                 [@ EXCEPT !.pc = "fetched", !.new_messages = acc,
                                           !.messages = acc, !.obtained = resp.delta,
                                           !.pages = @ + 1,
                                           !.visited = Append(@, page)]]
                  /\ newest' = Max(newest, resp.delta)
                  /\ UNCHANGED honest
           ELSE IF Truthy(resp.next)
           THEN /\ cycle' = [cycle EXCEPT ![c] =
                               [@ EXCEPT !.url = resp.next, !.new_messages = acc,
                                         !.pages = @ + 1,
                                         !.visited = Append(@, page)]]
                /\ UNCHANGED <<delta_file, honest, newest>>
           ELSE /\ cycle' = [cycle EXCEPT ![c] =
                               [@ EXCEPT !.pc = "fetched", !.new_messages = acc,
                                         !.messages = acc, !.pages = @ + 1,
                                         !.visited = Append(@, page)]]
                /\ honest' = FALSE
                /\ UNCHANGED <<delta_file, newest>>

\* get_new_messages: one iteration of the while-url loop
GetPage(c) ==
    /\ cycle[c].pc = "paging"
    /\ \/ PageFails(c)
       \/ \E resp \in ProviderPage(cycle[c].url) : PageArrives(c, resp)
    /\ UNCHANGED <<azure_configured, mailbox, email_groups, access_token, stats, started,
                   handed, handedBy>>
    /\ UNCHANGED <<exceptIngest, authFailure>>

\* process_emails after the fetch: nothing to do, or start the message loop
AfterFetch(c) ==
    /\ cycle[c].pc = "fetched"
    /\ IF cycle[c].messages = <<>>
       THEN /\ stats' = [stats EXCEPT !.total_runs = @ + 1]
            /\ cycle' = [cycle EXCEPT ![c] = IdleFrame]
       ELSE /\ cycle' = [cycle EXCEPT ![c].pc = "processing", ![c].idx = 1]
            /\ UNCHANGED stats
    /\ UNCHANGED <<azure_configured, mailbox, email_groups, delta_link, delta_file, access_token,
                   started, handed, handedBy, honest, newest>>
    /\ UNCHANGED <<exceptIngest, authFailure>>

\* process_emails: await self._process_message(message) for the next message
ProcessMessage(c) ==
    /\ cycle[c].pc = "processing"
    /\ cycle[c].idx <= Len(cycle[c].messages)
    /\ LET m == cycle[c].messages[cycle[c].idx]
       IN  /\ handed' = [handed EXCEPT ![m] = @ + 1]
           /\ handedBy' = [handedBy EXCEPT ![c] = @ \cup {m}]
    /\ cycle' = [cycle EXCEPT ![c].idx = @ + 1]
    /\ UNCHANGED <<azure_configured, mailbox, email_groups, delta_link, delta_file, access_token,
                   stats, started, honest, newest>>
    /\ UNCHANGED <<exceptIngest, authFailure>>

\* process_emails: after the loop, update the counters
FinishCycle(c) ==
    /\ cycle[c].pc = "processing"
    /\ cycle[c].idx > Len(cycle[c].messages)
    /\ stats' = [stats EXCEPT !.messages_processed = @ + Len(cycle[c].messages),
                              !.total_runs = @ + 1]
    /\ cycle' = [cycle EXCEPT ![c] = IdleFrame]
    /\ UNCHANGED <<azure_configured, mailbox, email_groups, delta_link, delta_file, access_token,
                   started, handed, handedBy, honest, newest>>
    /\ UNCHANGED <<exceptIngest, authFailure>>

\* the provider receives a new message (or records a deletion)
NewMail ==
    /\ Len(mailbox) < MaxMail
    /\ \E item \in MailItems : mailbox' = Append(mailbox, item)
    /\ UNCHANGED <<azure_configured, email_groups, delta_link, delta_file, access_token, stats,
                   cycle, started, handed, handedBy, honest, newest>>
    /\ UNCHANGED <<exceptIngest, authFailure>>

CycleStep(c) ==
    \/ Authenticate(c)
    \/ BeginFetch(c)
    \/ GetPage(c)
    \/ AfterFetch(c)
    \/ ProcessMessage(c)
    \/ FinishCycle(c)

AllIdle == \A c \in Cycles : cycle[c].pc = "idle"

(***************************************************************************)
(* Part II.  Attachment queue.                                             *)
(*                                                                         *)
(* The Redis list is a sequence whose first element is the left end:       *)
(* LPUSH adds at the front, BRPOP takes from the back.  A record carries   *)
(* its producer and the producer's running number (the order in which the  *)
(* producer built its records) and its attachment_size.                    *)
(***************************************************************************)
max_queue_size == 2         \* MAX_QUEUE_SIZE, scaled down
max_attachment_size == 1    \* MAX_ATTACHMENT_SIZE, scaled down
MaxOffered == 3             \* records the producers ever build
MaxBatch == 2               \* attachments of one message

\* the mail ingestion (batch enqueue) and the upload-folder handler (single)
Producers == {"mail", "upload"}
Workers == {"w1", "w2"}

\* a downloaded attachment or an uploaded file is never empty
Sizes == 1..(max_attachment_size + 1)

IdleCall == [pc |-> "idle", op |-> "none", batch |-> <<>>, valid |-> <<>>,
             fb |-> <<>>, i |-> 0, current_size |-> 0 - 1,
             batch_current_size |-> 0 - 1, count |-> 0,
             result |-> FALSE, pushed |-> <<>>, qBefore |-> <<>>,
             err |-> FALSE, disturbed |-> FALSE, stale |-> FALSE]

QueueInit ==
    /\ queue = <<>>
    /\ prod = [p \in Producers |-> IdleCall]
    /\ offered = [p \in Producers |-> 0]
    /\ lastDeq = [p \in Producers |-> 0]
    /\ removed_count = 0

\* ---- Redis list commands -------------------------------------------------

RPushWrongEnd(q, r) == Append(q, r)
LPush(q, r) == <<r>> \o q

\* a MULTI/EXEC pipeline of LPUSHes, in the order they were buffered
RECURSIVE LPushAll(_, _)
LPushAll(q, rs) == IF rs = <<>> THEN q ELSE LPushAll(LPush(q, Head(rs)), Tail(rs))

BRPopValueFromLeft(q) == q[1]
BRPopValue(q) == q[Len(q)]
BRPopRestPeeks(q) == q
BRPopRest(q) == SubSeq(q, 1, Len(q) - 1)

\* ---- RedisEmailQueue admission rules ------------------------------------

\* enqueue_attachment: attachment_size > self.max_attachment_size
TooLargeOffByOne(size) == size > max_attachment_size + 1
TooLarge(size) == size > max_attachment_size

\* enqueue_attachment: current_size >= self.max_queue_size
QueueFullOffByOne(current_size) == current_size > max_queue_size
QueueNeverFull(current_size) == FALSE
QueueFull(current_size) == current_size >= max_queue_size

\* enqueue_multiple_attachments: the records put on the pipeline
ValidAttachments(batch) == SelectSeq(batch, LAMBDA r : r.size <= max_attachment_size)

\* enqueue_multiple_attachments: current_size + len(valid) > self.max_queue_size
BatchNeverOverflows(current_size, n) == FALSE
BatchOverflows(current_size, n) == current_size + n > max_queue_size

\* ---- producers -----------------------------------------------------------

Tag(r, how) == [r EXCEPT !.via = how]

\* FileUploadHandler._queue_uploaded_file for a file of the given size: build
\* one record, enqueue_attachment
QueueUploadedFile(p, size) ==
    /\ p = "upload"
    /\ prod[p].pc = "idle"
    /\ offered["mail"] + offered["upload"] < MaxOffered
    /\ LET r == [prod |-> p, seq |-> offered[p] + 1, size |-> size, via |-> "single"]
       IN  prod' = [prod EXCEPT ![p] =
                      [IdleCall EXCEPT !.pc = "ea_check", !.op = "single",
                                       !.fb = <<r>>, !.i = 1, !.qBefore = queue]]
    /\ offered' = [offered EXCEPT ![p] = @ + 1]
    /\ UNCHANGED <<queue, lastDeq, removed_count>>
    /\ UNCHANGED exceptQueue

BeginSingle(p) == \E size \in Sizes : QueueUploadedFile(p, size)

\* the batches a message's attachments can make
BatchesFrom(p, first, n) ==
    { [k \in 1..n |-> [prod |-> p, seq |-> first + k, size |-> sz[k], via |-> "none"]] :
        sz \in [1..n -> Sizes] }

\* EmailMonitor._enqueue_attachments_to_redis for the records b built from
\* a message's attachments: enqueue_multiple_attachments
EnqueueBatch(p, b) ==
    /\ p = "mail"
    /\ prod[p].pc = "idle"
    /\ offered["mail"] + offered["upload"] + Len(b) <= MaxOffered
    /\ prod' = [prod EXCEPT ![p] =
                  [IdleCall EXCEPT !.pc = "em_check", !.op = "batch",
                                   !.batch = b, !.qBefore = queue]]
    /\ offered' = [offered EXCEPT ![p] = @ + Len(b)]
    /\ UNCHANGED <<queue, lastDeq, removed_count>>
    /\ UNCHANGED exceptQueue

BeginBatch(p) ==
    \E n \in 1..MaxBatch : \E b \in BatchesFrom(p, offered[p], n) :
        EnqueueBatch(p, b)

\* enqueue_attachment returned ok for record i of the list being enqueued one
\* by one: a single call is finished, the fallback loop goes on
AfterEnqueue(f, ok) ==
    LET g == [f EXCEPT !.count = IF ok THEN @ + 1 ELSE @, !.result = ok]
    IN  IF f.i < Len(f.fb)
        THEN [g EXCEPT !.pc = "ea_check", !.i = @ + 1]
        ELSE [g EXCEPT !.pc = "done"]

\* the loop "for attachment in ...: if self.enqueue_attachment(attachment)"
StartFallback(f, list) ==
    IF list = <<>>
    THEN [f EXCEPT !.pc = "done", !.fb = list]
    ELSE [f EXCEPT !.pc = "ea_check", !.fb = list, !.i = 1]

\* enqueue_attachment: size validation and the LLEN check
EnqueueCheck(p) ==
    /\ prod[p].pc = "ea_check"
    /\ LET f == prod[p]
           r == f.fb[f.i]
       IN  IF TooLarge(r.size)
           THEN prod' = [prod EXCEPT ![p] = AfterEnqueue(f, FALSE)]
           ELSE \/ /\ QueueFull(Len(queue))
                   /\ prod' = [prod EXCEPT ![p] =
                        AfterEnqueue([f EXCEPT !.current_size = Len(queue)], FALSE)]
                \/ /\ ~QueueFull(Len(queue))
                   /\ prod' = [prod EXCEPT ![p] =
                        [f EXCEPT !.pc = "ea_push", !.current_size = Len(queue)]]
                \/ \* llen raises: except Exception -> return False
                   prod' = [prod EXCEPT ![p] =
                        AfterEnqueue([f EXCEPT !.err = TRUE], FALSE)]
    /\ UNCHANGED <<queue, offered, lastDeq, removed_count>>
    /\ UNCHANGED exceptQueue

\* enqueue_attachment: the LPUSH
EnqueuePush(p) ==
    /\ prod[p].pc = "ea_push"
    /\ LET f == prod[p]
           r == Tag(f.fb[f.i], IF f.op = "single" THEN "single" ELSE "fallback")
       IN  \/ /\ queue' = LPush(queue, r)
              /\ prod' = [prod EXCEPT ![p] =
                            AfterEnqueue([f EXCEPT !.pushed = Append(@, r)], TRUE)]
           \/ \* lpush raises: except Exception -> return False
              /\ prod' = [prod EXCEPT ![p] =
                            AfterEnqueue([f EXCEPT !.err = TRUE], FALSE)]
              /\ UNCHANGED queue
    /\ UNCHANGED <<offered, lastDeq, removed_count>>
    /\ UNCHANGED exceptQueue

\* enqueue_multiple_attachments: validation, LLEN, pipeline or fallback
BatchCheck(p) ==
    /\ prod[p].pc = "em_check"
    /\ LET f == [prod[p] EXCEPT !.valid = ValidAttachments(prod[p].batch)]
       IN  \/ /\ BatchOverflows(Len(queue), Len(f.valid))
              /\ prod' = [prod EXCEPT ![p] =
                            StartFallback([f EXCEPT !.batch_current_size = Len(queue)], f.valid)]
           \/ /\ ~BatchOverflows(Len(queue), Len(f.valid))
              /\ prod' = [prod EXCEPT ![p] =
                            [f EXCEPT !.pc = "em_exec", !.batch_current_size = Len(queue)]]
           \/ \* llen raises: except Exception -> enqueue every attachment singly
              prod' = [prod EXCEPT ![p] =
                            StartFallback([f EXCEPT !.err = TRUE], f.batch)]
    /\ UNCHANGED <<queue, offered, lastDeq, removed_count>>
    /\ UNCHANGED exceptQueue

\* enqueue_multiple_attachments: pipe.execute()
BatchExecute(p) ==
    /\ prod[p].pc = "em_exec"
    /\ LET f == prod[p]
           rs == [k \in 1..Len(f.valid) |-> Tag(f.valid[k], "pipe")]
       IN  \/ /\ queue' = LPushAll(queue, rs)
              /\ prod' = [prod EXCEPT ![p] =
                            [f EXCEPT !.pc = "done", !.pushed = rs, !.count = Len(rs)]]
           \/ \* execute raises: except Exception -> enqueue every attachment singly
              /\ prod' = [prod EXCEPT ![p] =
                            StartFallback([f EXCEPT !.err = TRUE], f.batch)]
              /\ UNCHANGED queue
    /\ UNCHANGED <<offered, lastDeq, removed_count>>
    /\ UNCHANGED exceptQueue

\* the caller takes the return value
ReturnCall(p) ==
    /\ prod[p].pc = "done"
    /\ prod' = [prod EXCEPT ![p] = IdleCall]
    /\ UNCHANGED <<queue, offered, lastDeq, removed_count>>
    /\ UNCHANGED exceptQueue

\* history: somebody else changed the queue while the call was in progress
\* (disturbed), or after it returned and before the caller took the result
\* (stale: the queue is no longer as the call left it)
Disturb(f) ==
    CASE f.pc = "idle" -> f
      [] f.pc = "done" -> [f EXCEPT !.stale = TRUE]
      [] OTHER -> [f EXCEPT !.disturbed = TRUE]

\* redis_client.brpop returns a record: its effect on the list (on a timeout
\* it returns None and nothing changes)
BRPop ==
    /\ queue # <<>>
    /\ lastDeq' = [lastDeq EXCEPT ![BRPopValue(queue).prod] = BRPopValue(queue).seq]
    /\ queue' = BRPopRest(queue)
    /\ prod' = [p \in Producers |-> Disturb(prod[p])]
    /\ UNCHANGED <<offered, removed_count>>

\* AttachmentWorker.run seen from the queue: a worker removes a record
Dequeue(w) ==
    /\ BRPop
    /\ UNCHANGED exceptQueue

\* clear_queue: DEL returns the number of keys it removed
ClearQueue ==
    /\ removed_count' = IF queue # <<>> THEN 1 ELSE 0
    /\ queue' = <<>>
    /\ prod' = [p \in Producers |-> IF queue # <<>> THEN Disturb(prod[p]) ELSE prod[p]]
    /\ UNCHANGED <<offered, lastDeq>>
    /\ UNCHANGED exceptQueue

ProducerStep(p) ==
    \/ EnqueueCheck(p)
    \/ EnqueuePush(p)
    \/ BatchCheck(p)
    \/ BatchExecute(p)
    \/ ReturnCall(p)

NoCallInProgress == \A p \in Producers : prod[p].pc = "idle"

(***************************************************************************)
(* Part III.  Attachment workers.                                          *)
(*                                                                         *)
(* Each worker is a process running AttachmentWorker.run; the Worker       *)
(* Manager starts a new process in place of a dead one.  A record is named *)
(* by its producer and the producer's running number.                      *)
(***************************************************************************)
max_retries == 3        \* MAX_PIPELINE_RETRIES
MaxCrashes == 1         \* worker processes that ever die
MaxTasks == 2           \* records offered while the workers are watched
MaxForeign == 1         \* list elements that no producer of this program wrote

RecordIds == Producers \X (1..MaxOffered)
IdOf(r) == <<r.prod, r.seq>>
NoItem == [prod |-> "none", seq |-> 0, size |-> 0, via |-> "none"]

\* a worker process that has just started: AttachmentWorker.__init__
FreshWorker == [pc |-> "poll", item |-> NoItem,
                stats |-> [processed_count |-> 0, success_count |-> 0,
                           error_count |-> 0]]

NoRun == [ok |-> TRUE, attempts |-> 0, slept |-> <<>>, retry_count |-> 0]

\* a worker process the Worker Manager has not started
NotStarted == [FreshWorker EXCEPT !.pc = "dead"]

WorkersAt(f) ==
    /\ worker = [w \in Workers |-> f]
    /\ taken = [id \in RecordIds |-> 0]
    /\ reported = [id \in RecordIds |-> <<>>]
    /\ results = [id \in RecordIds |-> 0]
    /\ lastRun = NoRun
    /\ lost = {}
    /\ crashes = 0
    /\ temp_dir = {}
    /\ unparsed = [w \in Workers |-> 0]

WorkerInit == WorkersAt(FreshWorker)

RECURSIVE Pow2(_)
Pow2(n) == IF n = 0 THEN 1 ELSE 2 * Pow2(n - 1)

\* _run_pipeline: await asyncio.sleep(2 ** retry_count)
Backoff(retry_count) == Pow2(retry_count)

\* _run_pipeline: "if retry_count > self.max_retries: raise"
RetriesExhaustedOneEarly(retry_count) == retry_count >= max_retries
RetriesExhausted(retry_count) == retry_count > max_retries

\* _run_pipeline: the retry loop, for a pipeline whose first `fails` attempts
\* raise.  Returns whether it ended in success, the attempts made, the sleeps
\* between them and the final retry_count
RECURSIVE RunPipeline(_, _, _, _)
RunPipeline(retry_count, attempts, slept, fails) ==
    IF retry_count <= max_retries
    THEN IF attempts + 1 > fails
         THEN [ok |-> TRUE, attempts |-> attempts + 1, slept |-> slept,
               retry_count |-> retry_count]
         ELSE IF RetriesExhausted(retry_count + 1)
              THEN [ok |-> FALSE, attempts |-> attempts + 1, slept |-> slept,
                    retry_count |-> retry_count + 1]
              ELSE RunPipeline(retry_count + 1, attempts + 1,
                               Append(slept, Backoff(retry_count + 1)), fails)
    ELSE [ok |-> FALSE, attempts |-> attempts, slept |-> slept,
          retry_count |-> retry_count]

\* _update_stats(success)
UpdateStatsCountsTwice(st, success) ==
    [st EXCEPT !.processed_count = @ + 1,
               !.success_count = IF success THEN @ + 1 ELSE @,
               !.error_count = IF success THEN @ ELSE @ + 2]
UpdateStatsErrorOnly(st, success) ==
    [st EXCEPT !.processed_count = IF success THEN @ + 1 ELSE @,
               !.success_count = IF success THEN @ + 1 ELSE @,
               !.error_count = IF success THEN @ ELSE @ + 1]
UpdateStats(st, success) ==
    [st EXCEPT !.processed_count = @ + 1,
               !.success_count = IF success THEN @ + 1 ELSE @,
               !.error_count = IF success THEN @ ELSE @ + 1]

\* run, back at the top of the loop after _process_attachment returned
\* success and _update_stats recorded it
ReportedStopsOnFailure(f, success) ==
    [FreshWorker EXCEPT !.stats = UpdateStats(f.stats, success),
                        !.pc = IF success THEN "poll" ELSE "stopped"]
Reported(f, success) ==
    [FreshWorker EXCEPT !.stats = UpdateStats(f.stats, success)]

\* a list element that is no EmailAttachmentData JSON, as the tests build it
ForeignItem(k) == [prod |-> "foreign", seq |-> k, size |-> 0, via |-> "raw"]

\* _parse_queue_item: json.loads and from_dict succeed on what to_redis wrote
\* and raise on anything else, and the except returns None
ParsesNothingUploaded(r) == r.prod \in Producers \ {"upload"}
Parses(r) == r.prod \in Producers

\* run: brpop returns an element, _parse_queue_item returns None, continue
TakeUnparseable(w) ==
    /\ worker[w].pc = "poll"
    /\ queue # <<>>
    /\ ~Parses(BRPopValue(queue))
    /\ queue' = BRPopRest(queue)
    /\ prod' = [p \in Producers |-> Disturb(prod[p])]
    /\ unparsed' = [unparsed EXCEPT ![w] = @ + 1]
    /\ UNCHANGED <<offered, lastDeq, removed_count>>
    /\ UNCHANGED <<worker, taken, reported, results, lastRun, lost, crashes,
                   temp_dir>>
    /\ UNCHANGED <<ivars, xvars, mvars, gvars, svars>>

\* run: brpop returns a record and _parse_queue_item rebuilds it
Take(w) ==
    /\ worker[w].pc = "poll"
    /\ queue # <<>>
    /\ Parses(BRPopValue(queue))
    /\ BRPop
    /\ LET r == BRPopValue(queue)
       IN  /\ worker' = [worker EXCEPT ![w] = [@ EXCEPT !.pc = "processing", !.item = r]]
           /\ taken' = [taken EXCEPT ![IdOf(r)] = @ + 1]
    /\ UNCHANGED <<reported, results, lastRun, lost, crashes, temp_dir, unparsed>>
    /\ UNCHANGED <<ivars, xvars, mvars, gvars, svars>>

\* _save_temp_attachment fails: temp_file.write_bytes raised, either in
\* opening the file (no file) or in writing to the file it had created (the
\* file stays); the except returns None
SaveTempFailure(dir, id) == {dir, dir \cup {id}}

\* run: success = await self._process_attachment(attachment_data), then
\* self._update_stats(success).  _save_temp_attachment fails (False); or
\* the temp file is written, and _run_pipeline raises after its retries
\* (False), or it returns and _save_processing_results writes the result
\* file, a failure to write being only logged (True); the finally unlinks
\* the temp file
ProcessAttachment(w) ==
    /\ worker[w].pc = "processing"
    /\ LET id == IdOf(worker[w].item)
       IN  \/ /\ reported' = [reported EXCEPT ![id] = Append(@, "failed")]
              /\ worker' = [worker EXCEPT ![w] = Reported(@, FALSE)]
              /\ temp_dir' \in SaveTempFailure(temp_dir, id)
              /\ UNCHANGED <<results, lastRun>>
           \/ \E fails \in 0..(max_retries + 1) :
                LET run == RunPipeline(0, 0, <<>>, fails)
                IN  /\ lastRun' = run
                    /\ worker' = [worker EXCEPT ![w] = Reported(@, run.ok)]
                    /\ reported' = [reported EXCEPT ![id] =
                                      Append(@, IF run.ok THEN "success" ELSE "failed")]
                    /\ IF run.ok
                       THEN \/ results' = [results EXCEPT ![id] = @ + 1]
                            \/ UNCHANGED results
                       ELSE UNCHANGED results
                    /\ temp_dir' = temp_dir \ {id}
    /\ UNCHANGED <<taken, lost, crashes, unparsed>>
    /\ UNCHANGED <<ivars, qvars, xvars, mvars, gvars, svars>>

\* the worker process dies (crash, SIGTERM, kill): its memory is gone, and
\* with it the record it had dequeued
Crash(w) ==
    /\ worker[w].pc # "dead"
    /\ crashes < MaxCrashes
    /\ crashes' = crashes + 1
    /\ lost' = IF worker[w].pc = "poll" THEN lost ELSE lost \cup {IdOf(worker[w].item)}
    /\ worker' = [worker EXCEPT ![w] = [FreshWorker EXCEPT !.pc = "dead"]]
    /\ UNCHANGED <<taken, reported, results, lastRun, temp_dir, unparsed>>
    /\ UNCHANGED <<ivars, qvars, xvars, mvars, gvars, svars>>

\* WorkerManager.monitor_workers: a dead worker is replaced by a new process
RestartWorker(w) ==
    /\ worker[w].pc = "dead"
    /\ worker' = [worker EXCEPT ![w] = FreshWorker]
    /\ UNCHANGED <<taken, reported, results, lastRun, lost, crashes, temp_dir,
                   unparsed>>
    /\ UNCHANGED <<ivars, qvars, xvars, mvars, gvars, svars>>

(***************************************************************************)
(* Part IV.  Queue wire format.                                            *)
(*                                                                         *)
(* Bytes are numbers 0..255, text is a sequence of code points, None is    *)
(* the value NoneValue.  to_dict encodes the content in base64, json.dumps *)
(* writes the dictionary as ASCII text, the worker decodes the bytes,      *)
(* parses the text and from_dict decodes the base64.                       *)
(***************************************************************************)
MaxContentLen == 3      \* bytes of attachment content
MaxTextLen == 2         \* characters of a text field

NoneValue == <<0 - 1>>

\* bytes the content is made of: both ends and the middle of the range
SampleBytes == {0, 127, 255}
RECURSIVE SeqsUpTo(_, _)
SeqsUpTo(S, n) ==
    IF n = 0 THEN {<<>>}
    ELSE LET shorter == SeqsUpTo(S, n - 1)
         IN  shorter \cup {Append(q, e) : q \in shorter, e \in S}

\* a content holding every byte value once
AllByteValues == [i \in 1..256 |-> i - 1]
Contents == SeqsUpTo(SampleBytes, MaxContentLen) \cup {AllByteValues}

\* characters a text field is made of: a letter, the double quote, the
\* backslash, a line feed, a non-ASCII letter
SampleChars == {97, 34, 92, 10, 233}
Texts == SeqsUpTo(SampleChars, MaxTextLen)

\* ---- base64 --------------------------------------------------------------

Pad == 64

\* the character of the base64 alphabet for a 6-bit value, "=" for padding
B64CharUrlSafe(v) ==
    IF v < 26 THEN 65 + v
    ELSE IF v < 52 THEN 97 + (v - 26)
    ELSE IF v < 62 THEN 48 + (v - 52)
    ELSE IF v = 62 THEN 45
    ELSE IF v = 63 THEN 95
    ELSE 61
B64Char(v) ==
    IF v < 26 THEN 65 + v
    ELSE IF v < 52 THEN 97 + (v - 26)
    ELSE IF v < 62 THEN 48 + (v - 52)
    ELSE IF v = 62 THEN 43
    ELSE IF v = 63 THEN 47
    ELSE 61

B64Value(c) ==
    IF c >= 65 /\ c <= 90 THEN c - 65
    ELSE IF c >= 97 /\ c <= 122 THEN c - 97 + 26
    ELSE IF c >= 48 /\ c <= 57 THEN c - 48 + 52
    ELSE IF c = 43 THEN 62
    ELSE IF c = 47 THEN 63
    ELSE Pad

\* base64.b64encode(content).decode('utf-8')
RECURSIVE B64Encode(_)
B64Encode(b) ==
    IF Len(b) = 0 THEN <<>>
    ELSE IF Len(b) = 1
    THEN <<B64Char(b[1] \div 4), B64Char((b[1] % 4) * 16), B64Char(Pad), B64Char(Pad)>>
    ELSE IF Len(b) = 2
    THEN <<B64Char(b[1] \div 4), B64Char((b[1] % 4) * 16 + b[2] \div 16),
           B64Char((b[2] % 16) * 4), B64Char(Pad)>>
    ELSE IF Len(b) = 3
    THEN <<B64Char(b[1] \div 4), B64Char((b[1] % 4) * 16 + b[2] \div 16),
           B64Char((b[2] % 16) * 4 + b[3] \div 64), B64Char(b[3] % 64)>>
    ELSE \* the groups of three bytes are encoded one by one; the evaluation
         \* splits the bytes at a group boundary near the middle
         LET cut == 3 * (((Len(b) + 2) \div 3) \div 2)
         IN  B64Encode(SubSeq(b, 1, cut)) \o B64Encode(SubSeq(b, cut + 1, Len(b)))

\* base64.b64decode(text.encode('utf-8'))
RECURSIVE B64Decode(_)
B64Decode(t) ==
    IF Len(t) < 4 THEN <<>>
    ELSE IF Len(t) < 8
    THEN LET v == [i \in 1..4 |-> B64Value(t[i])]
         IN  IF v[3] = Pad THEN <<v[1] * 4 + v[2] \div 16>>
             ELSE IF v[4] = Pad
             THEN <<v[1] * 4 + v[2] \div 16, (v[2] % 16) * 16 + v[3] \div 4>>
             ELSE <<v[1] * 4 + v[2] \div 16, (v[2] % 16) * 16 + v[3] \div 4,
                    (v[3] % 4) * 64 + v[4]>>
    ELSE \* the groups of four characters are decoded one by one; the
         \* evaluation splits the text at a group boundary near the middle
         LET cut == 4 * ((Len(t) \div 4) \div 2)
         IN  B64Decode(SubSeq(t, 1, cut)) \o B64Decode(SubSeq(t, cut + 1, Len(t)))

\* ---- json ----------------------------------------------------------------

HexChar(d) == IF d < 10 THEN 48 + d ELSE 97 + (d - 10)
HexValue(c) == IF c >= 48 /\ c <= 57 THEN c - 48 ELSE c - 97 + 10

\* json.dumps of one character of a string (ensure_ascii is on)
EscapeChar(c) ==
    IF c = 34 THEN <<92, 34>>
    ELSE IF c = 92 THEN <<92, 92>>
    ELSE IF c = 10 THEN <<92, 110>>
    ELSE IF c < 32 \/ c > 127
    THEN <<92, 117, HexChar(c \div 4096), HexChar((c \div 256) % 16),
           HexChar((c \div 16) % 16), HexChar(c % 16)>>
    ELSE <<c>>

\* the characters are escaped one by one; the evaluation splits the text in
\* the middle
RECURSIVE Escape(_)
Escape(t) ==
    IF t = <<>> THEN <<>>
    ELSE IF Len(t) = 1 THEN EscapeChar(t[1])
    ELSE Escape(SubSeq(t, 1, Len(t) \div 2)) \o Escape(SubSeq(t, Len(t) \div 2 + 1, Len(t)))

\* json.loads of the first character or escape sequence of j: the character
\* it stands for and the number of characters read
UnescapeFirst(j) ==
    IF j[1] # 92 THEN [out |-> <<j[1]>>, used |-> 1]
    ELSE IF Len(j) < 2 THEN [out |-> <<>>, used |-> 1]
    ELSE IF j[2] = 110 THEN [out |-> <<10>>, used |-> 2]
    ELSE IF j[2] = 117 /\ Len(j) >= 6
    THEN [out |-> <<HexValue(j[3]) * 4096 + HexValue(j[4]) * 256
                    + HexValue(j[5]) * 16 + HexValue(j[6])>>, used |-> 6]
    ELSE [out |-> <<j[2]>>, used |-> 2]

\* json.loads of the first k characters or escape sequences of j
RECURSIVE UnescapeUpTo(_, _)
UnescapeUpTo(j, k) ==
    IF j = <<>> \/ k = 0 THEN [out |-> <<>>, rest |-> j]
    ELSE LET first == UnescapeFirst(j)
             more == UnescapeUpTo(SubSeq(j, first.used + 1, Len(j)), k - 1)
         IN  [out |-> first.out \o more.out, rest |-> more.rest]

\* json.loads of the inside of a string, read from left to right
RECURSIVE Unescape(_)
Unescape(j) ==
    IF j = <<>> THEN <<>>
    ELSE LET part == UnescapeUpTo(j, 16)
         IN  part.out \o Unescape(part.rest)

JsonNull == <<110, 117, 108, 108>>

\* json.dumps / json.loads of a value that is a string or None
DumpsText(t) == IF t = NoneValue THEN JsonNull ELSE <<34>> \o Escape(t) \o <<34>>
LoadsText(j) == IF j = JsonNull THEN NoneValue ELSE Unescape(SubSeq(j, 2, Len(j) - 1))

\* json.dumps / json.loads of a non-negative integer
RECURSIVE DumpsInt(_)
DumpsInt(n) == IF n < 10 THEN <<48 + n>> ELSE Append(DumpsInt(n \div 10), 48 + (n % 10))
RECURSIVE LoadsInt(_)
LoadsInt(j) ==
    IF Len(j) = 1 THEN j[1] - 48
    ELSE LoadsInt(SubSeq(j, 1, Len(j) - 1)) * 10 + (j[Len(j)] - 48)

\* str.encode('utf-8') for code points below 2048; the characters are
\* encoded one by one, the evaluation splits the text in the middle
RECURSIVE Utf8Encode(_)
Utf8Encode(t) ==
    IF t = <<>> THEN <<>>
    ELSE IF Len(t) = 1
    THEN IF t[1] < 128 THEN <<t[1]>>
         ELSE <<192 + (t[1] \div 64), 128 + (t[1] % 64)>>
    ELSE Utf8Encode(SubSeq(t, 1, Len(t) \div 2))
         \o Utf8Encode(SubSeq(t, Len(t) \div 2 + 1, Len(t)))

\* bytes.decode('utf-8') of the first k characters of b
RECURSIVE Utf8DecodeUpTo(_, _)
Utf8DecodeUpTo(b, k) ==
    IF b = <<>> \/ k = 0 THEN [out |-> <<>>, rest |-> b]
    ELSE IF b[1] < 128
    THEN LET more == Utf8DecodeUpTo(Tail(b), k - 1)
         IN  [out |-> <<b[1]>> \o more.out, rest |-> more.rest]
    ELSE IF Len(b) < 2 THEN [out |-> <<>>, rest |-> <<>>]
    ELSE LET more == Utf8DecodeUpTo(SubSeq(b, 3, Len(b)), k - 1)
         IN  [out |-> <<(b[1] - 192) * 64 + (b[2] - 128)>> \o more.out,
              rest |-> more.rest]

\* bytes.decode('utf-8'), read from left to right
RECURSIVE Utf8Decode(_)
Utf8Decode(b) ==
    IF b = <<>> THEN <<>>
    ELSE LET part == Utf8DecodeUpTo(b, 16)
         IN  part.out \o Utf8Decode(part.rest)

\* ---- EmailAttachmentData -------------------------------------------------

\* datetime.now().isoformat() in the producer and, later, in the worker
NowAtProducer == <<48>>
NowAtWorker == <<49>>

\* __post_init__: created_at is filled in when it is None
PostInit(r, now) == IF r.created_at = NoneValue THEN [r EXCEPT !.created_at = now] ELSE r

\* to_dict
ToDict(r) ==
    [task_id |-> r.task_id,
     email_id |-> r.email_id,
     email_subject |-> r.email_subject,
     email_sender |-> r.email_sender,
     email_sender_email |-> r.email_sender_email,
     email_content |-> r.email_content,
     email_received_date |-> r.email_received_date,
     attachment_id |-> r.attachment_id,
     attachment_filename |-> r.attachment_filename,
     attachment_content_b64 |-> B64Encode(r.attachment_content),
     attachment_mime_type |-> r.attachment_mime_type,
     attachment_size |-> r.attachment_size,
     created_at |-> r.created_at]

\* from_dict, called at time now
FromDict(d, now) ==
    PostInit([task_id |-> d.task_id,
              email_id |-> d.email_id,
              email_subject |-> d.email_subject,
              email_sender |-> d.email_sender,
              email_sender_email |-> d.email_sender_email,
              email_content |-> d.email_content,
              email_received_date |-> d.email_received_date,
              attachment_id |-> d.attachment_id,
              attachment_filename |-> d.attachment_filename,
              attachment_content |-> B64Decode(d.attachment_content_b64),
              attachment_mime_type |-> d.attachment_mime_type,
              attachment_size |-> d.attachment_size,
              created_at |-> d.created_at], now)

\* json.dumps(attachment_data.to_dict()): the text of each value; the braces,
\* keys, colons and commas of the object are not written out
JsonDumps(d) ==
    [k \in DOMAIN d |->
        IF k = "attachment_size" THEN DumpsInt(d[k]) ELSE DumpsText(d[k])]

JsonLoads(j) ==
    [k \in DOMAIN j |->
        IF k = "attachment_size" THEN LoadsInt(j[k]) ELSE LoadsText(j[k])]

\* redis-py sends the JSON text as UTF-8 bytes
ToRedis(j) == [k \in DOMAIN j |-> Utf8Encode(j[k])]

\* _parse_queue_item: raw_data.decode('utf-8'), json.loads, from_dict
ParseQueueItem(raw) ==
    FromDict(JsonLoads([k \in DOMAIN raw |-> Utf8Decode(raw[k])]), NowAtWorker)

\* the records a producer can build: the content and the texts vary, a
\* created_at is given or left to __post_init__
BuiltRecords ==
    { PostInit([task_id |-> t,
                email_id |-> <<105>>,
                email_subject |-> t,
                email_sender |-> <<115>>,
                email_sender_email |-> <<101>> \o t,
                email_content |-> t \o t,
                email_received_date |-> <<100>>,
                attachment_id |-> <<97>>,
                attachment_filename |-> t \o <<102>>,
                attachment_content |-> c,
                attachment_mime_type |-> <<109>>,
                attachment_size |-> Len(c),
                created_at |-> created], NowAtProducer) :
        c \in Contents, t \in Texts, created \in {NoneValue, <<99>>} }

WireIdle ==
    /\ wire_pc = "none"
    /\ attachment_data = NoneValue
    /\ data_dict = NoneValue
    /\ direct = NoneValue
    /\ raw_data = NoneValue
    /\ parsed = NoneValue

WireInit ==
    /\ wire_pc = "built"
    /\ attachment_data \in BuiltRecords
    /\ data_dict = NoneValue
    /\ direct = NoneValue
    /\ raw_data = NoneValue
    /\ parsed = NoneValue

\* attachment_data.to_dict()
CallToDict ==
    /\ wire_pc = "built"
    /\ data_dict' = ToDict(attachment_data)
    /\ wire_pc' = "dict"
    /\ UNCHANGED <<attachment_data, direct, raw_data, parsed>>
    /\ UNCHANGED <<ivars, qvars, wvars, mvars, gvars, svars>>

\* EmailAttachmentData.from_dict(data_dict), with no JSON in between
CallFromDict ==
    /\ wire_pc = "dict"
    /\ direct' = FromDict(data_dict, NowAtWorker)
    /\ wire_pc' = "direct"
    /\ UNCHANGED <<attachment_data, data_dict, raw_data, parsed>>
    /\ UNCHANGED <<ivars, qvars, wvars, mvars, gvars, svars>>

\* enqueue_attachment: json.dumps and lpush
SendToRedis ==
    /\ wire_pc = "direct"
    /\ raw_data' = ToRedis(JsonDumps(data_dict))
    /\ wire_pc' = "raw"
    /\ UNCHANGED <<attachment_data, data_dict, direct, parsed>>
    /\ UNCHANGED <<ivars, qvars, wvars, mvars, gvars, svars>>

\* AttachmentWorker._parse_queue_item(raw_data)
CallParseQueueItem ==
    /\ wire_pc = "raw"
    /\ parsed' = ParseQueueItem(raw_data)
    /\ wire_pc' = "parsed"
    /\ UNCHANGED <<attachment_data, data_dict, direct, raw_data>>
    /\ UNCHANGED <<ivars, qvars, wvars, mvars, gvars, svars>>

(***************************************************************************)
(* Part V.  One message and its attachments.                               *)
(*                                                                         *)
(* An attachment is known by what happens to it in the loop over the       *)
(* message's attachments; a message by where its handling raises, if it    *)
(* does.  _process_message runs to its end in one step: no other client of *)
(* the queue acts while it runs, and the store answers every command (the  *)
(* store failing inside an enqueue call is the subject of Part II).        *)
(***************************************************************************)

\* "ok": allowed type, downloaded, within max_attachment_size
\* "big": allowed type, downloaded, larger than max_attachment_size
\* "empty": download_attachment returns b"" (it catches its own exceptions)
\* "filtered": the extension is not in file_types
\* "raise": handling it raises (a null name under a type filter; in direct
\*          mode also a file that cannot be written)
AttKinds == {"ok", "big", "empty", "filtered", "raise"}
AttachmentLists == SeqsUpTo(AttKinds, MaxBatch)

\* "before_try": the message makes lines 449-468 raise (a null "from")
\* "in_try": the message makes line 476 raise (a null "subject")
MsgFaults == {"none", "before_try", "in_try"}

\* the messages a fetch can return: a sound message with any attachments; a
\* faulty one without attachments or with one (what the attachments of a
\* faulty message are like is never looked at)
Messages ==
    {[fault |-> "none", atts |-> atts] : atts \in AttachmentLists}
    \cup {[fault |-> fault, atts |-> atts] :
             fault \in {"before_try", "in_try"}, atts \in {<<>>, <<"ok">>}}

SizeOf(kind) == IF kind = "big" THEN max_attachment_size + 1 ELSE max_attachment_size

NoMessage == [msg |-> 0, fault |-> "none", atts |-> <<>>, queue_mode |-> FALSE,
              room |-> 0, kept |-> {}, summary |-> 0, listed |-> {},
              message_dir |-> FALSE,
              raised |-> FALSE,
              escaped |-> FALSE, errors |-> 0, queue_errors |-> 0,
              attachments_queued |-> 0, attachments_processed |-> 0]

NoTally == [summaries |-> <<>>, pushed |-> 0, saved |-> 0,
            attachments_queued |-> 0, attachments_processed |-> 0,
            raised |-> FALSE]

MessageIdle ==
    /\ use_redis_queue = TRUE
    /\ given = [fault |-> "none", atts |-> <<>>]
    /\ last = NoMessage
    /\ tally = NoTally
    /\ authFailure = "none"

MessageInit ==
    /\ use_redis_queue \in BOOLEAN
    /\ given = [fault |-> "none", atts |-> <<>>]
    /\ last = NoMessage
    /\ tally = NoTally
    /\ authFailure = "none"

\* the two "continue" of the loop over the attachments: the type filter and
\* "if not attachment_data"
SkippedOnlyWhenFiltered(kind) == kind = "filtered"
Skipped(kind) == kind \in {"filtered", "empty"}

\* "for attachment in attachments:" in either mode, from attachment k on:
\* a filtered attachment and an empty download go to the next attachment,
\* an exception ends the loop; done lists the attachments that reached the
\* end of the loop body
RECURSIVE AttachmentLoop(_, _, _)
AttachmentLoop(atts, k, done) ==
    IF k > Len(atts) THEN [raised |-> FALSE, done |-> done]
    ELSE IF atts[k] = "raise" THEN [raised |-> TRUE, done |-> done]
    ELSE IF Skipped(atts[k]) THEN AttachmentLoop(atts, k + 1, done)
    ELSE AttachmentLoop(atts, k + 1, Append(done, k))

\* enqueue_attachment for each record of the list, counting the successes
RECURSIVE EnqueueOneByOne(_, _, _)
EnqueueOneByOne(q, list, enqueued_count) ==
    IF list = <<>> THEN [queue |-> q, count |-> enqueued_count]
    ELSE IF TooLarge(Head(list).size) \/ QueueFull(Len(q))
    THEN EnqueueOneByOne(q, Tail(list), enqueued_count)
    ELSE EnqueueOneByOne(LPush(q, Tag(Head(list), "fallback")), Tail(list),
                         enqueued_count + 1)

\* enqueue_multiple_attachments run to its end
EnqueueMultipleAttachmentsCountsOffered(q, attachments) ==
    LET valid_attachments == ValidAttachments(attachments)
    IN  [queue |-> IF BatchOverflows(Len(q), Len(valid_attachments)) THEN q
                   ELSE LPushAll(q, [k \in 1..Len(valid_attachments) |->
                                        Tag(valid_attachments[k], "pipe")]),
         count |-> Len(attachments)]
EnqueueMultipleAttachments(q, attachments) ==
    LET valid_attachments == ValidAttachments(attachments)
    IN  IF BatchOverflows(Len(q), Len(valid_attachments))
        THEN EnqueueOneByOne(q, valid_attachments, 0)
        ELSE [queue |-> LPushAll(q, [k \in 1..Len(valid_attachments) |->
                                        Tag(valid_attachments[k], "pipe")]),
              count |-> Len(valid_attachments)]

\* the record built for attachment k of a message whose records are numbered
\* from first + 1
AttachmentTask(atts, k, first) ==
    [prod |-> "mail", seq |-> first + k, size |-> SizeOf(atts[k]), via |-> "none"]

\* what the handling of a message leaves behind when nothing is enqueued,
\* saved or counted
NoEffectButDirectory(q, st) ==
    [queue |-> q, stats |-> st, saved |-> <<>>, summary |-> 0, listed |-> <<>>,
     message_dir |-> TRUE, raised |-> FALSE, escaped |-> FALSE]
NoEffect(q, st) ==
    [queue |-> q, stats |-> st, saved |-> <<>>, summary |-> 0, listed |-> <<>>,
     message_dir |-> FALSE, raised |-> FALSE, escaped |-> FALSE]

\* _enqueue_attachments_to_redis: one try around the loop and the batch
EnqueueAttachmentsToRedis(atts, q, first, st) ==
    LET loop == AttachmentLoop(atts, 1, <<>>)
        attachment_tasks == [i \in 1..Len(loop.done) |->
                                AttachmentTask(atts, loop.done[i], first)]
        res == EnqueueMultipleAttachments(q, attachment_tasks)
    IN  IF loop.raised
        THEN [NoEffect(q, st) EXCEPT
                 !.stats = [st EXCEPT !.queue_errors = @ + 1],
                 !.raised = TRUE]
        ELSE IF attachment_tasks = <<>> THEN NoEffect(q, st)
        ELSE [NoEffect(q, st) EXCEPT
                 !.queue = res.queue,
                 !.stats = [st EXCEPT !.attachments_queued = @ + res.count],
                 !.summary = Len(attachment_tasks),
                 !.listed = loop.done]

\* _process_attachments_directly, called inside the try of _process_message:
\* the directory of the message is made, every attachment that reaches the
\* end of the loop body is saved and counted; an exception leaves the
\* function and is counted by the caller
ProcessAttachmentsDirectly(atts, q, st) ==
    LET loop == AttachmentLoop(atts, 1, <<>>)
        counted == [st EXCEPT !.attachments_processed = @ + Len(loop.done)]
    IN  IF loop.raised
        THEN [NoEffect(q, st) EXCEPT
                 !.stats = [counted EXCEPT !.errors = @ + 1],
                 !.saved = loop.done,
                 !.message_dir = TRUE,
                 !.raised = TRUE]
        ELSE [NoEffect(q, st) EXCEPT
                 !.stats = counted,
                 !.saved = loop.done,
                 !.message_dir = TRUE,
                 !.summary = Len(loop.done),
                 !.listed = loop.done]

\* _process_message, and the except clause of process_emails for what it
\* lets through
ProcessMessageEffect(fault, atts, queue_mode, q, first, st) ==
    IF fault = "before_try"
    THEN [NoEffect(q, st) EXCEPT !.stats = [st EXCEPT !.errors = @ + 1],
                                 !.raised = TRUE, !.escaped = TRUE]
    ELSE IF atts = <<>> THEN NoEffect(q, st)
    ELSE IF fault = "in_try"
    THEN [NoEffect(q, st) EXCEPT !.stats = [st EXCEPT !.errors = @ + 1],
                                 !.raised = TRUE]
    ELSE IF queue_mode THEN EnqueueAttachmentsToRedis(atts, q, first, st)
    ELSE ProcessAttachmentsDirectly(atts, q, st)

\* the attachments of the message whose record is on the queue now and was
\* not before, or whose file was saved
Kept(atts, first, q, eff) ==
    {k \in DOMAIN atts :
        \/ \E i \in DOMAIN eff.queue :
              /\ eff.queue[i].prod = "mail"
              /\ eff.queue[i].seq = first + k
        \/ \E i \in DOMAIN eff.saved : eff.saved[i] = k}

\* nothing lies under attachments_dir for the message
NoFiles == [dirs |-> {}, files |-> {}]

\* _process_attachments_directly on the disk: mkdir(exist_ok=True) of the
\* directory named after the message and the second the call runs in, and in
\* it one file for every attachment saved, named after the date, a new
\* uuid4 and the attachment (its place in the message); a uuid4 is one that
\* no call returned before: the saved attachments are numbered on from
\* minted
SaveDirectly(store, message_id, at, saved, minted) ==
    LET message_dir == [id |-> message_id, at |-> at]
    IN  [dirs |-> store.dirs \cup {message_dir},
         files |-> store.files \cup
                     {[dir |-> message_dir, uuid |-> minted + i, name |-> saved[i]] :
                         i \in DOMAIN saved}]

\* process_emails: "except Exception" logs and counts what escaped the
\* message loop, and the call returns
ExceptionEndsJob(f) == [f EXCEPT !.pc = "crashed"]
ExceptionCaught(f) == IdleFrame

\* process_emails: await self._process_message(message) for the next
\* message, whatever the message is like
HandleMessage(c) ==
    /\ cycle[c].pc = "processing"
    /\ cycle[c].idx <= Len(cycle[c].messages)
    /\ \E message \in Messages :
       /\ given' = message
       /\ \E eff \in {ProcessMessageEffect(message.fault, message.atts, use_redis_queue,
                                        queue, offered["mail"], stats)} :
         LET m == cycle[c].messages[cycle[c].idx]
             atts == message.atts
             first == offered["mail"]
             before == IF cycle[c].idx = 1 THEN NoTally ELSE tally
             queued == eff.stats.attachments_queued - stats.attachments_queued
             processed == eff.stats.attachments_processed - stats.attachments_processed
         IN  /\ handed' = [handed EXCEPT ![m] = @ + 1]
             /\ handedBy' = [handedBy EXCEPT ![c] = @ \cup {m}]
             /\ stats' = eff.stats
             /\ queue' = eff.queue
             /\ offered' = [offered EXCEPT !["mail"] = first + Len(atts)]
             /\ cycle' = IF eff.escaped
                         THEN [cycle EXCEPT ![c] = ExceptionCaught(@)]
                         ELSE [cycle EXCEPT ![c].idx = @ + 1]
             /\ last' = [msg |-> m, fault |-> message.fault, atts |-> atts,
                         queue_mode |-> use_redis_queue,
                         room |-> max_queue_size - Len(queue),
                         kept |-> Kept(atts, first, queue, eff),
                         summary |-> eff.summary,
                         listed |-> {eff.listed[i] : i \in DOMAIN eff.listed},
                         message_dir |-> eff.message_dir,
                         raised |-> eff.raised,
                         escaped |-> eff.escaped,
                         errors |-> eff.stats.errors - stats.errors,
                         queue_errors |-> eff.stats.queue_errors - stats.queue_errors,
                         attachments_queued |-> queued,
                         attachments_processed |-> processed]
             /\ message_files' =
                    LET store == IF m = last.msg /\ message = given
                                 THEN message_files ELSE NoFiles
                    IN  IF eff.message_dir
                        THEN SaveDirectly(store, m, clock, eff.saved,
                                          stats.attachments_processed)
                        ELSE store
             /\ tally' = [summaries |-> IF eff.summary > 0
                                        THEN Append(before.summaries, eff.summary)
                                        ELSE before.summaries,
                          pushed |-> before.pushed + (Len(eff.queue) - Len(queue)),
                          saved |-> before.saved + Len(eff.saved),
                          attachments_queued |-> before.attachments_queued + queued,
                          attachments_processed |-> before.attachments_processed + processed,
                          raised |-> before.raised \/ eff.raised]
    /\ UNCHANGED <<azure_configured, mailbox, email_groups, delta_link, delta_file, access_token,
                   started, honest, newest>>
    /\ UNCHANGED <<prod, lastDeq, removed_count>>
    /\ UNCHANGED <<wvars, xvars, gvars, clock, peeked, use_redis_queue, authFailure>>

(***************************************************************************)
(* Part VI.  The Worker Manager.                                           *)
(***************************************************************************)
num_workers == 2        \* MAX_CONCURRENT_WORKERS
MaxDeaths == 2          \* worker processes that die on their own
MaxStarts == 2          \* calls of start_workers

Slots == 1..num_workers

\* the process ids the starts and restarts can hand out
Pids == 1..(num_workers * MaxStarts + MaxDeaths)

NotStopping == [pc |-> "idle", i |-> 0, live |-> {}]

\* WorkerManager.__init__
ManagerInit ==
    /\ running = FALSE
    /\ workers = <<>>
    /\ manager_stats = [workers_started |-> 0, workers_stopped |-> 0, restarts |-> 0]
    /\ alive = {}
    /\ spawned = 0
    /\ deaths = 0
    /\ starts = 0
    /\ stop = NotStopping
    /\ log = <<>>

\* the pids of the processes in the list
Handles == {workers[i] : i \in DOMAIN workers}

\* the slots whose process is not alive
DeadSlots == {i \in DOMAIN workers : workers[i] \notin alive}

\* start_workers: "Workers already running" and nothing else when running;
\* else running = True, and for each i in range(num_workers) a process is
\* created, started, appended and counted, or its start raises and the
\* except logs it (ok: the rounds whose start succeeds)
StartWorkers ==
    /\ stop.pc = "idle"
    /\ starts < MaxStarts
    /\ starts' = starts + 1
    /\ IF running
       THEN UNCHANGED <<running, workers, manager_stats, alive, spawned>>
       ELSE \E ok \in SUBSET Slots :
              /\ running' = TRUE
              /\ workers' = workers \o [k \in 1..Cardinality(ok) |-> spawned + k]
              /\ alive' = alive \cup {spawned + k : k \in 1..Cardinality(ok)}
              /\ spawned' = spawned + Cardinality(ok)
              /\ manager_stats' = [manager_stats EXCEPT
                                      !.workers_started = @ + Cardinality(ok)]
    /\ UNCHANGED <<deaths, stop, log>>
    /\ UNCHANGED <<ivars, qvars, wvars, xvars, mvars, svars>>

\* a worker process dies on its own
Die(pid) ==
    /\ pid \in alive
    /\ deaths < MaxDeaths
    /\ deaths' = deaths + 1
    /\ alive' = alive \ {pid}
    /\ UNCHANGED <<running, workers, manager_stats, spawned, starts, stop, log>>
    /\ UNCHANGED <<ivars, qvars, wvars, xvars, mvars, svars>>

\* monitor_workers begins a pass: "while self.running" holds when the task
\* is resumed from its sleep, and no stop_workers call is under way, since
\* stop_workers awaits nothing between its first statement and its last and
\* the monitor is a task of the same event loop (a task the signal handler
\* of standalone_runner creates runs from the loop, not inside the pass)
MonitorPassUnguarded == TRUE
MonitorPass == running /\ stop.pc = "idle"

\* monitor_workers, one pass of "while self.running": the dead workers are
\* collected and, from the last to the first, each is replaced in its slot by
\* a new process and counted, unless starting the process raises (ok: the
\* slots whose restart succeeds)
Restart(ok) ==
    /\ MonitorPass
    /\ ok \subseteq DeadSlots
    /\ workers' = [i \in DOMAIN workers |->
                     IF i \in ok
                     THEN spawned + Cardinality({j \in ok : j >= i})
                     ELSE workers[i]]
    /\ alive' = alive \cup {spawned + k : k \in 1..Cardinality(ok)}
    /\ spawned' = spawned + Cardinality(ok)
    /\ manager_stats' = [manager_stats EXCEPT !.restarts = @ + Cardinality(ok)]
    /\ UNCHANGED <<running, deaths, starts, stop, log>>
    /\ UNCHANGED <<ivars, qvars, wvars, xvars, mvars, svars>>

MonitorWorkers == \E ok \in SUBSET DeadSlots : Restart(ok)

\* stop_workers: running = False, then terminate() for every worker that is
\* alive, in the order of the list
Terminations(ws, live) ==
    [k \in DOMAIN SelectSeq(ws, LAMBDA pid : pid \in live) |->
        [op |-> "terminate", pid |-> SelectSeq(ws, LAMBDA pid : pid \in live)[k]]]

StopBegin ==
    /\ running
    /\ stop.pc = "idle"
    /\ running' = FALSE
    /\ log' = Terminations(workers, alive)
    /\ stop' = [pc |-> "joining", i |-> 1, live |-> alive]
    /\ UNCHANGED <<workers, manager_stats, alive, spawned, deaths, starts>>
    /\ UNCHANGED <<ivars, qvars, wvars, xvars, mvars, svars>>

\* stop_workers: worker.join(timeout=shutdown_timeout) returns because the
\* process has exited, or the timeout passes, is_alive() holds, and the
\* process is killed and joined
JoinWithoutKill(pid, exited) ==
    IF exited THEN <<[op |-> "join", pid |-> pid]>>
    ELSE <<[op |-> "timeout", pid |-> pid]>>
Join(pid, exited) ==
    IF exited THEN <<[op |-> "join", pid |-> pid]>>
    ELSE <<[op |-> "timeout", pid |-> pid], [op |-> "kill", pid |-> pid],
           [op |-> "join", pid |-> pid]>>

\* the processes alive after those events
AfterEvents(live, events) ==
    live \ {events[k].pid : k \in {j \in DOMAIN events : events[j].op \in {"join", "kill"}}}

\* stop_workers: the wait for the next worker of the list, and its count
StopJoin ==
    /\ stop.pc = "joining"
    /\ stop.i <= Len(workers)
    /\ \E exited \in (IF workers[stop.i] \in alive THEN BOOLEAN ELSE {TRUE}) :
         /\ log' = log \o Join(workers[stop.i], exited)
         /\ alive' = AfterEvents(alive, Join(workers[stop.i], exited))
    /\ manager_stats' = [manager_stats EXCEPT !.workers_stopped = @ + 1]
    /\ stop' = [stop EXCEPT !.i = @ + 1]
    /\ UNCHANGED <<running, workers, spawned, deaths, starts>>
    /\ UNCHANGED <<ivars, qvars, wvars, xvars, mvars, svars>>

\* stop_workers: self.workers.clear(), and the call returns
StopEnd ==
    /\ stop.pc = "joining"
    /\ stop.i > Len(workers)
    /\ workers' = <<>>
    /\ stop' = NotStopping
    /\ UNCHANGED <<running, manager_stats, alive, spawned, deaths, starts, log>>
    /\ UNCHANGED <<ivars, qvars, wvars, xvars, mvars, svars>>

(***************************************************************************)
(* Part VII.  The clock of Direct mode and the queue's peek endpoint.      *)
(***************************************************************************)
MaxClock == 1           \* seconds that pass
MaxPeek == 3            \* the largest count asked of the peek endpoint
PeekLimit == 50         \* peek_redis_queue: "count > 50"

NoPeek == [status |-> 0, count |-> 0, answered |-> FALSE, queue_peek |-> <<>>]

ServiceIdle ==
    /\ message_files = NoFiles
    /\ clock = 0
    /\ peeked = NoPeek

\* a second passes
ClockAdvances ==
    /\ clock < MaxClock
    /\ clock' = clock + 1
    /\ UNCHANGED <<ivars, qvars, wvars, xvars, mvars, gvars, message_files, peeked>>

\* Redis LRANGE key first final: both ends are zero-based and inclusive, a
\* negative one counts from the right end, one beyond an end is cut to it
LRange(q, first, final) ==
    LET from == IF first < 0 THEN Max(Len(q) + first, 0) ELSE first
        to == IF final < 0 THEN Len(q) + final ELSE Min(final, Len(q) - 1)
    IN  IF from > to THEN <<>> ELSE SubSeq(q, from + 1, to + 1)

\* peek_queue: the preview of one element: the parsed record with its content
\* replaced by "<n characters>", n the length of the base64 text; an element
\* that is not JSON gives an error entry
Preview(item) ==
    IF Parses(item)
    THEN [task_id |-> <<item.prod, item.seq>>,
          attachment_size |-> item.size,
          attachment_content_b64 |->
              [characters |-> Len(B64Encode([i \in 1..item.size |-> 0]))]]
    ELSE [error |-> "Failed to parse item"]

\* peek_queue with the store answering: lrange(-count, -1), then
\* "for item in reversed(items)"
PeekQueueNewestFirst(q, count) ==
    LET items == LRange(q, 0 - count, 0 - 1)
    IN  [k \in 1..Len(items) |-> Preview(items[k])]
PeekQueue(q, count) ==
    LET items == LRange(q, 0 - count, 0 - 1)
    IN  [k \in 1..Len(items) |-> Preview(items[Len(items) + 1 - k])]

\* GET /redis-queue/peek?count=...: 400 without a queue or for a count
\* outside 1..50; otherwise what peek_queue returns, which is [] when lrange
\* raises
PeekRedisQueue ==
    /\ \E count \in 0..MaxPeek :
         IF ~use_redis_queue \/ count <= 0 \/ count > PeekLimit
         THEN peeked' = [status |-> 400, count |-> count, answered |-> FALSE,
                         queue_peek |-> <<>>]
         ELSE \/ peeked' = [status |-> 200, count |-> count, answered |-> TRUE,
                            queue_peek |-> PeekQueue(queue, count)]
              \/ peeked' = [status |-> 200, count |-> count, answered |-> FALSE,
                            queue_peek |-> <<>>]
    /\ UNCHANGED <<ivars, qvars, wvars, xvars, mvars, gvars, message_files, clock>>

(***************************************************************************)
(* Specifications.                                                         *)
(***************************************************************************)
vars == <<ivars, qvars, wvars, xvars, mvars, gvars, svars>>

Init == IngestInit /\ QueueInit /\ WorkerInit /\ WireIdle /\ MessageIdle
        /\ ManagerInit /\ ServiceIdle

\* the scheduler job (run_async_job) and POST /process-now (process_now) both
\* call monitor.process_emails; nothing keeps the two apart
Next ==
    \/ \E c \in Cycles : StartCycle(c)
    \/ \E c \in Cycles : CycleStep(c)
    \/ NewMail

Spec == Init /\ [][Next]_vars

\* cycles that do not overlap: a cycle starts only when no other is running
StartCycleAlone(c) == AllIdle /\ StartCycle(c)

NextSeq ==
    \/ \E c \in Cycles : StartCycleAlone(c)
    \/ \E c \in Cycles : CycleStep(c)
    \/ NewMail

SpecSeq == Init /\ [][NextSeq]_vars

\* the queue with one producer at a time and competing consumers
BeginSingleAlone(p) == NoCallInProgress /\ BeginSingle(p)
BeginBatchAlone(p) == NoCallInProgress /\ BeginBatch(p)

NextQueue ==
    \/ \E p \in Producers : BeginSingleAlone(p)
    \/ \E p \in Producers : BeginBatchAlone(p)
    \/ \E p \in Producers : ProducerStep(p)
    \/ \E w \in Workers : Dequeue(w)
    \/ ClearQueue

SpecQueue == Init /\ [][NextQueue]_vars

\* the workers: records come from the upload handler's enqueue_attachment,
\* competing worker processes consume them, a worker may die and be replaced
\* a file of the largest admitted size, or one byte more, is uploaded
BeginTask(p) ==
    /\ offered[p] < MaxTasks
    /\ NoCallInProgress
    /\ \E size \in {max_attachment_size, max_attachment_size + 1} :
         QueueUploadedFile(p, size)

NextWorker ==
    \/ \E p \in Producers : BeginTask(p)
    \/ \E p \in Producers : EnqueueCheck(p)
    \/ \E p \in Producers : EnqueuePush(p)
    \/ \E p \in Producers : ReturnCall(p)
    \/ \E w \in Workers : Take(w)
    \/ \E w \in Workers : ProcessAttachment(w)
    \/ \E w \in Workers : Crash(w)
    \/ \E w \in Workers : RestartWorker(w)

SpecWorker == Init /\ [][NextWorker]_vars

\* the workers and a queue that also holds elements they cannot parse: the
\* elements of a queue with the first n uploaded files and f elements pushed
\* by other clients of the Redis server
QueuedItems(n, f) ==
    {[prod |-> "upload", seq |-> k, size |-> max_attachment_size, via |-> "single"] :
        k \in 1..n} \cup {ForeignItem(k) : k \in 1..f}

\* the orders they can be in: elements of one origin lie in the order of
\* their LPUSH, and each record passed the LLEN check of enqueue_attachment
QueuedOrders(n, f) ==
    {q \in [1..(n + f) -> QueuedItems(n, f)] :
        /\ \A i, j \in 1..(n + f) :
               i < j => /\ q[i] # q[j]
                        /\ q[i].prod = q[j].prod => q[i].seq > q[j].seq
        /\ \A i \in 1..(n + f) : Parses(q[i]) => ~QueueFull(n + f - i)}

\* the upload handler has enqueued its files and returned
QueuedInit ==
    /\ \E n \in 0..MaxTasks : \E f \in 0..MaxForeign :
         /\ queue \in QueuedOrders(n, f)
         /\ offered = [p \in Producers |-> IF p = "upload" THEN n ELSE 0]
    /\ prod = [p \in Producers |-> IdleCall]
    /\ lastDeq = [p \in Producers |-> 0]
    /\ removed_count = 0

InitIsolation == IngestInit /\ QueuedInit /\ WorkerInit /\ WireIdle /\ MessageIdle
                 /\ ManagerInit /\ ServiceIdle

NextIsolation ==
    \/ \E w \in Workers : Take(w)
    \/ \E w \in Workers : TakeUnparseable(w)
    \/ \E w \in Workers : ProcessAttachment(w)

SpecIsolation == InitIsolation /\ [][NextIsolation]_vars

\* the upload handler has enqueued up to MaxTasks files and returned
QueuedUploads ==
    /\ \E n \in 0..MaxTasks :
         /\ queue \in QueuedOrders(n, 0)
         /\ offered = [p \in Producers |-> IF p = "upload" THEN n ELSE 0]
    /\ prod = [p \in Producers |-> IdleCall]
    /\ lastDeq = [p \in Producers |-> 0]
    /\ removed_count = 0

InitPipeline == IngestInit /\ QueuedUploads /\ WorkerInit /\ WireIdle /\ MessageIdle
                /\ ManagerInit /\ ServiceIdle

\* the workers on that queue, worker processes that die and are replaced,
\* and their scheduling: a worker that runs goes on running (its brpop
\* returns while the queue holds a record, and the handling of the record
\* it holds comes to its end, the retries of _run_pipeline being bounded)
NextPipeline ==
    \/ \E w \in Workers : Take(w)
    \/ \E w \in Workers : ProcessAttachment(w)
    \/ \E w \in Workers : Crash(w)
    \/ \E w \in Workers : RestartWorker(w)

SpecPipeline ==
    /\ InitPipeline
    /\ [][NextPipeline]_vars
    /\ \A w \in Workers : WF_vars(Take(w))
    /\ \A w \in Workers : WF_vars(ProcessAttachment(w))

MaxLeftover == 1     \* records in the list when the service starts

\* a record an earlier run of the upload handler left in the list; the
\* running numbers of this run start after it
EarlierRecord ==
    [prod |-> "upload", seq |-> 0, size |-> max_attachment_size, via |-> "single"]

\* the list as the service finds it: Redis keeps what was in the list before
\* the producers of this run built their first record
LeftoverInit ==
    /\ \E h \in 0..Min(MaxLeftover, max_queue_size) :
         queue = [k \in 1..h |-> EarlierRecord]
    /\ prod = [p \in Producers |-> IdleCall]
    /\ offered = [p \in Producers |-> 0]
    /\ lastDeq = [p \in Producers |-> 0]
    /\ removed_count = 0

InitOvershoot == IngestInit /\ LeftoverInit /\ WorkerInit /\ WireIdle /\ MessageIdle
                 /\ ManagerInit /\ ServiceIdle

\* enqueue_multiple_attachments: pipe.execute() raises, and every attachment
\* of the message goes through enqueue_attachment
BatchExecuteFails(p) == BatchExecute(p) /\ UNCHANGED queue

\* a message with one attachment of the largest admitted size
OneAttachment(p) ==
    EnqueueBatch(p, <<[prod |-> p, seq |-> offered[p] + 1,
                       size |-> max_attachment_size, via |-> "none"]>>)

\* producers that call enqueue_attachment concurrently: the upload handler
\* on the observer's thread, and the mail loop for the attachment of a
\* message whose pipeline was refused or failed; the workers consume
NextOvershoot ==
    \/ \E p \in Producers : QueueUploadedFile(p, max_attachment_size)
    \/ \E p \in Producers : OneAttachment(p)
    \/ \E p \in Producers : BatchCheck(p)
    \/ \E p \in Producers : BatchExecuteFails(p)
    \/ \E p \in Producers : EnqueueCheck(p)
    \/ \E p \in Producers : EnqueuePush(p)
    \/ \E p \in Producers : ReturnCall(p)
    \/ \E w \in Workers : Dequeue(w)

SpecOvershoot == InitOvershoot /\ [][NextOvershoot]_vars

\* one record on its way from the producer to a worker
NextWire ==
    \/ CallToDict
    \/ CallFromDict
    \/ SendToRedis
    \/ CallParseQueueItem

InitWire == IngestInit /\ QueueInit /\ WorkerInit /\ WireInit /\ MessageIdle
            /\ ManagerInit /\ ServiceIdle

SpecWire == InitWire /\ [][NextWire]_vars

\* the message loop of a cycle, in queue mode or in direct mode, with
\* messages of every kind: the scheduler's first cycle has authenticated and
\* its first sweep has fetched the n messages of the mailbox
FetchedFrame(n) ==
    [IdleFrame EXCEPT !.pc = "processing",
                      !.url = PageSize * ((n - 1) \div PageSize),
                      !.new_messages = [i \in 1..n |-> i],
                      !.messages = [i \in 1..n |-> i],
                      !.idx = 1,
                      !.obtained = n,
                      !.pages = (n + PageSize - 1) \div PageSize,
                      !.visited =
                          [i \in 1..((n + PageSize - 1) \div PageSize) |->
                              [pos |-> PageSize * (i - 1),
                               value |-> [k \in 1..Min(PageSize, n - PageSize * (i - 1))
                                             |-> PageSize * (i - 1) + k],
                               next |-> IF PageSize * i < n THEN PageSize * i
                                        ELSE NoCursor,
                               delta |-> IF PageSize * i < n THEN NoCursor ELSE n]]]

\* the cycle of a tick has authenticated and fetched the n messages of the
\* mailbox in its first sweep, after k cycles that failed to authenticate
FetchedAfter(k) ==
    \E n \in 1..MaxMail :
        /\ azure_configured = TRUE
        /\ mailbox = [i \in 1..n |-> [removed |-> FALSE, sender |-> "grp"]]
        /\ email_groups = {}
        /\ delta_link = n
        /\ delta_file = n
        /\ access_token = TRUE
        /\ stats = [total_runs |-> 0, messages_processed |-> 0,
                    attachments_processed |-> 0, attachments_queued |-> 0,
                    queue_errors |-> 0, errors |-> k]
        /\ cycle = [c \in Cycles |-> IF c = "timer" THEN FetchedFrame(n) ELSE IdleFrame]
        /\ started = k + 1
        /\ handed = [m \in 1..MaxMail |-> 0]
        /\ handedBy = [c \in Cycles |-> {}]
        /\ honest = TRUE
        /\ newest = n

FetchedInit == FetchedAfter(0)

InitMessage == FetchedInit /\ QueueInit /\ WorkerInit /\ WireIdle /\ MessageInit
               /\ ManagerInit /\ ServiceIdle

NextMessage ==
    \/ \E c \in Cycles : HandleMessage(c)
    \/ \E c \in Cycles : FinishCycle(c)

SpecMessage == InitMessage /\ [][NextMessage]_vars

\* the Worker Manager: started, monitoring, stopped, started again, while its
\* worker processes die
NextManager ==
    \/ StartWorkers
    \/ \E pid \in Pids : Die(pid)
    \/ MonitorWorkers
    \/ StopBegin
    \/ StopJoin
    \/ StopEnd

SpecManager == Init /\ [][NextManager]_vars

\* monitor_workers is scheduled again and again, and the start of a new
\* process does not fail forever
SpecManagerFair ==
    /\ Init
    /\ [][NextManager]_vars
    /\ WF_vars(Restart(DeadSlots))

\* the monitor after cycles that failed to authenticate
MessageLate ==
    /\ use_redis_queue \in BOOLEAN
    /\ given = [fault |-> "none", atts |-> <<>>]
    /\ last = NoMessage
    /\ tally = NoTally
    /\ authFailure = "no_token"

\* the two long-running processes, each on its host: the monitor before the
\* Worker Manager has started a worker, either at its start with no mail
\* yet, or when the cycle of its last tick has fetched its messages after
\* cycles that failed to authenticate; and the workers on their queue, next
\* to a monitor in demo mode
InitResilience ==
    /\ \/ IngestInit /\ QueueInit /\ WorkersAt(NotStarted) /\ WireIdle /\ MessageIdle
       \/ /\ FetchedAfter(MaxCycles - 1) /\ QueueInit /\ WorkersAt(NotStarted)
          /\ WireIdle /\ MessageLate
       \/ DemoInit /\ QueuedInit /\ WorkerInit /\ WireIdle /\ MessageIdle
    /\ ManagerInit /\ ServiceIdle

Tick == \E c \in Cycles : StartCycleAlone(c)

IngestStep ==
    \E c \in Cycles :
        \/ Authenticate(c)
        \/ BeginFetch(c)
        \/ GetPage(c)
        \/ AfterFetch(c)
        \/ HandleMessage(c)
        \/ FinishCycle(c)

\* a step of the message loop, told by what it does to the frame of the
\* cycle: the loop goes on to the next message, or the exception of
\* _process_message ends the call
MessageLoopStep ==
    \E c \in Cycles :
        /\ cycle[c].pc = "processing"
        /\ cycle[c].idx <= Len(cycle[c].messages)
        /\ cycle' \in {[cycle EXCEPT ![c].idx = @ + 1],
                       [cycle EXCEPT ![c] = ExceptionCaught(@)]}

\* the steps of a cycle outside the message loop
CycleStepOutsideLoop ==
    \E c \in Cycles :
        \/ Authenticate(c)
        \/ BeginFetch(c)
        \/ GetPage(c)
        \/ AfterFetch(c)
        \/ FinishCycle(c)

WorkerStep(w) ==
    \/ Take(w)
    \/ TakeUnparseable(w)
    \/ ProcessAttachment(w)

NextResilience ==
    \/ Tick
    \/ IngestStep
    \/ \E w \in Workers : WorkerStep(w)

\* the scheduler fires at every tick, a running job and a running worker
\* process go on running
SpecResilience ==
    /\ InitResilience
    /\ [][NextResilience]_vars
    /\ WF_vars(Tick)
    /\ WF_vars(CycleStepOutsideLoop)
    /\ WF_cycle(MessageLoopStep)
    /\ \A w \in Workers : WF_vars(ProcessAttachment(w))

\* the scheduler job and POST /process-now overlap: both calls have fetched
\* the one message of the mailbox in their first sweep and hand it to
\* _process_message, in Direct mode, while the clock goes on
FetchedTwice ==
    LET n == 1 IN
        /\ azure_configured = TRUE
        /\ mailbox = [i \in 1..n |-> [removed |-> FALSE, sender |-> "grp"]]
        /\ email_groups = {}
        /\ delta_link = n
        /\ delta_file = n
        /\ access_token = TRUE
        /\ stats = [total_runs |-> 0, messages_processed |-> 0,
                    attachments_processed |-> 0, attachments_queued |-> 0,
                    queue_errors |-> 0, errors |-> 0]
        /\ cycle = [c \in Cycles |-> FetchedFrame(n)]
        /\ started = MaxCycles
        /\ handed = [m \in 1..MaxMail |-> 0]
        /\ handedBy = [c \in Cycles |-> {}]
        /\ honest = TRUE
        /\ newest = n

MessageDirect ==
    /\ use_redis_queue = FALSE
    /\ given = [fault |-> "none", atts |-> <<>>]
    /\ last = NoMessage
    /\ tally = NoTally
    /\ authFailure = "none"

InitDirect == FetchedTwice /\ QueueInit /\ WorkersAt(NotStarted) /\ WireIdle
              /\ MessageDirect /\ ManagerInit /\ ServiceIdle

NextDirect ==
    \/ \E c \in Cycles : HandleMessage(c)
    \/ \E c \in Cycles : FinishCycle(c)
    \/ ClockAdvances

SpecDirect == InitDirect /\ [][NextDirect]_vars

\* the peek endpoint next to the producers' enqueue_attachment calls and the
\* workers' dequeues
NextPeek ==
    \/ PeekRedisQueue
    \/ \E p \in Producers : BeginTask(p)
    \/ \E p \in Producers : EnqueueCheck(p)
    \/ \E p \in Producers : EnqueuePush(p)
    \/ \E p \in Producers : ReturnCall(p)
    \/ \E w \in Workers : Dequeue(w)

SpecPeek == Init /\ [][NextPeek]_vars


(***************************************************************************)
(* Properties of the mail client and the ingestion cycle.                  *)
(***************************************************************************)

\* C1: over non-overlapping ingestion cycles (SpecSeq), with a provider that
\* ends every sweep with a delta link, no message id is handed to
\* _process_message more than once.
C1_AtMostOnce ==
    honest => \A m \in 1..MaxMail : handed[m] <= 1

\* a message was processed, and a later successful fetch from the cursor of
\* the cycle that processed it returned nothing
C1_Witness ==
    /\ honest
    /\ \E m \in 1..MaxMail : handed[m] = 1
    /\ \E c \in Cycles :
         /\ cycle[c].pc = "fetched"
         /\ ~cycle[c].failed
         /\ Truthy(cycle[c].startLink)
         /\ cycle[c].obtained = cycle[c].startLink
         /\ cycle[c].messages = <<>>

\* C2: a get_new_messages call in which a page request failed returns no
\* message and leaves delta_link and delta_link.txt as they were when the
\* call began.
C2_FailedFetchAtomic ==
    \A c \in Cycles :
        (cycle[c].pc = "fetched" /\ cycle[c].failed) =>
            /\ cycle[c].messages = <<>>
            /\ delta_link = cycle[c].startLink
            /\ delta_file = cycle[c].startFile

\* a sweep from a stored cursor failed on its second page, after a first page
\* that carried a message
C2_Witness ==
    \E c \in Cycles :
        /\ cycle[c].pc = "fetched"
        /\ cycle[c].failed
        /\ cycle[c].pages >= 2
        /\ cycle[c].discarded >= 1
        /\ Truthy(cycle[c].startLink)
        /\ delta_file = cycle[c].startLink

\* C3: every completed get_new_messages call leaves the cursor (in memory and
\* persisted) equal to the cursor the provider issued for the sweep, every
\* failed call leaves it unchanged, and no call returns messages while leaving
\* the cursor at its previous value.
C3_CursorFollowsFetch ==
    \A c \in Cycles :
        cycle[c].pc = "fetched" =>
            /\ (~cycle[c].failed /\ Truthy(cycle[c].obtained)) =>
                   (delta_link = cycle[c].obtained /\ delta_file = cycle[c].obtained)
            /\ cycle[c].failed =>
                   (delta_link = cycle[c].startLink /\ delta_file = cycle[c].startFile)
            /\ cycle[c].messages # <<>> =>
                   (delta_link # cycle[c].startLink /\ delta_file # cycle[c].startFile)

\* C4: at most one ingestion cycle is in progress at any time.
C4_OneCycleAtATime ==
    Cardinality({c \in Cycles : cycle[c].pc # "idle"}) <= 1

\* C5: with a provider that ends every sweep with a delta link, the
\* timer-driven cycle and the triggered cycle never process the same message
\* id, however they interleave, and once both are done the cursor is the
\* newest one either of them obtained.
C5_ConcurrentTriggerSafe ==
    honest =>
        /\ handedBy["timer"] \cap handedBy["trigger"] = {}
        /\ (AllIdle /\ Truthy(newest)) => delta_link = newest

\* C6: when _process_message starts for a message of a cycle, delta_link.txt
\* holds the cursor that the cycle's fetch obtained.
C6_CursorDurableBeforeProcessing ==
    \A c \in Cycles :
        (/\ cycle[c].pc = "processing"
         /\ cycle[c].idx <= Len(cycle[c].messages)
         /\ Truthy(cycle[c].obtained)) =>
            delta_file = cycle[c].obtained

\* C19: a cycle whose authentication fails ends at once: it counts one
\* error and changes no other statistic, requests no page and hands no
\* message on, and leaves the cursor (in memory and persisted), the token
\* and the queue as they were - whether or not a token of an earlier cycle
\* is still there.
C19_AuthFailureEndsCycle ==
    [][\A c \in Cycles :
          (cycle[c].pc = "authenticating" /\ stats'.errors # stats.errors)
          => /\ cycle'[c] = IdleFrame
             /\ stats' = [stats EXCEPT !.errors = @ + 1]
             /\ UNCHANGED <<delta_link, delta_file, access_token, handed, handedBy>>
             /\ UNCHANGED <<queue, offered>>]_vars

\* the authentication of a cycle failed while the token of an earlier cycle
\* was still there
C19_Witness ==
    /\ authFailure = "leftover_token"
    /\ access_token
    /\ AllIdle
    /\ stats.errors = 1
    /\ stats.total_runs = 1

\* C21: a cycle whose message fetch failed counts an error: the step that
\* takes the result of a failed get_new_messages adds one to stats['errors'],
\* so that its statistics differ from those of a cycle that found nothing.
C21_FetchFailureCounted ==
    [][\A c \in Cycles :
          (cycle[c].pc = "fetched" /\ cycle[c].failed /\ cycle'[c].pc # "fetched")
          => stats'.errors = stats.errors + 1]_vars

\* a sweep of the caller has ended without a failed page request, and its
\* result is still at hand
SweepEnded(c) ==
    /\ cycle[c].pc \in {"fetched", "processing"}
    /\ ~cycle[c].failed
    /\ cycle[c].visited # <<>>

\* the pages visited: the first is that of the stored cursor (the full-sync
\* page when none is stored), each further one that of the next link of the
\* page before, which carried no new cursor; the last carries a new cursor
\* or no next link; the stored cursor is the new cursor of the last page, or
\* what it was
SweepFollowsLinks(c) ==
    LET v == cycle[c].visited
        n == Len(v)
    IN  /\ v[1].pos = IF Truthy(cycle[c].startLink) THEN cycle[c].startLink ELSE 0
        /\ \A i \in 1..(n - 1) :
               /\ ~Truthy(v[i].delta)
               /\ Truthy(v[i].next)
               /\ v[i + 1].pos = v[i].next
        /\ Truthy(v[n].delta) \/ ~Truthy(v[n].next)
        /\ delta_link = IF Truthy(v[n].delta) THEN v[n].delta ELSE cycle[c].startLink

\* the messages of the first k pages visited, in page order: the non-removed
\* ones, or of these the ones that pass the group filter
RECURSIVE VisitedMessages(_, _, _)
VisitedMessages(v, k, filtered) ==
    IF k = 0 THEN <<>>
    ELSE VisitedMessages(v, k - 1, filtered)
         \o (IF filtered THEN GroupFilter(NotRemoved(v[k].value))
             ELSE NotRemoved(v[k].value))

\* C35 as claimed: the sweep follows the links as described and returns the
\* non-removed messages of every page visited, in page order.
C35_PaginationAsClaimed ==
    \A c \in Cycles :
        SweepEnded(c) =>
            /\ SweepFollowsLinks(c)
            /\ cycle[c].messages =
                  VisitedMessages(cycle[c].visited, Len(cycle[c].visited), FALSE)

\* C35: a sweep in which no page request fails starts from the stored cursor
\* (the full-sync page when none is stored), follows each page's next link
\* until a page carries a new cursor (even if it carries a next link too) or
\* no next link, returns in page order the non-removed messages of every
\* page visited that pass the group filter, and replaces the stored cursor
\* only by the new cursor of the last page.
C35_Pagination ==
    \A c \in Cycles :
        SweepEnded(c) =>
            /\ SweepFollowsLinks(c)
            /\ cycle[c].messages =
                  VisitedMessages(cycle[c].visited, Len(cycle[c].visited), TRUE)

\* a sweep of two pages under a group filter ended with a new cursor and
\* returned one of the two messages it saw
C35_Witness ==
    \E c \in Cycles :
        /\ SweepEnded(c)
        /\ email_groups # {}
        /\ Len(cycle[c].visited) = 2
        /\ Truthy(cycle[c].visited[2].delta)
        /\ delta_link = cycle[c].visited[2].delta
        /\ Len(cycle[c].messages) = 1
        /\ Len(cycle[c].visited[1].value) + Len(cycle[c].visited[2].value) = 2

(***************************************************************************)
(* Properties of the attachment workers (SpecWorker).                      *)
(***************************************************************************)

\* the workers that hold a record between its dequeue and its outcome
Held(id) == {w \in Workers : worker[w].pc = "processing" /\ IdOf(worker[w].item) = id}

InQueue(id) == \E k \in 1..Len(queue) : IdOf(queue[k]) = id

RECURSIVE ErrorCounts(_)
ErrorCounts(ws) ==
    IF ws = {} THEN 0
    ELSE LET w == CHOOSE x \in ws : TRUE
         IN  worker[w].stats.error_count + ErrorCounts(ws \ {w})

\* C11: with competing workers and no worker crash, a record is returned by
\* a brpop at most once and is held by at most one worker; a record still in
\* the queue has been returned to nobody; and a record that was returned has
\* exactly one outcome (success or failure) once its worker is through with
\* it, and none before.
C11_ConsumedExactlyOnce ==
    crashes = 0 =>
        \A id \in RecordIds :
            /\ taken[id] <= 1
            /\ Cardinality(Held(id)) <= 1
            /\ InQueue(id) => taken[id] = 0
            /\ Held(id) # {} => taken[id] = 1
            /\ Len(reported[id]) = (IF taken[id] = 1 /\ Held(id) = {} THEN 1 ELSE 0)

\* two records were admitted, each worker took one of them, and each record
\* has its one outcome
C11_Witness ==
    /\ crashes = 0
    /\ \A w \in Workers : worker[w].pc = "poll" /\ worker[w].stats.processed_count = 1
    /\ \E a, b \in RecordIds :
         a # b /\ Len(reported[a]) = 1 /\ Len(reported[b]) = 1

\* C12: a record that a worker process held when it died is never in the
\* queue again, no result file is ever written for it and no outcome is ever
\* reported for it, also after the Worker Manager has started a new process.
C12_CrashLosesRecord ==
    \A id \in lost :
        /\ ~InQueue(id)
        /\ taken[id] = 1
        /\ results[id] = 0
        /\ reported[id] = <<>>
        /\ Held(id) = {}

\* a worker died holding a record, was replaced, and the workers have since
\* completed another record and emptied the queue
C12_Witness ==
    /\ lost # {}
    /\ \A w \in Workers : worker[w].pc = "poll"
    /\ queue = <<>>
    /\ \E id \in RecordIds \ lost : reported[id] = <<"success">> /\ results[id] = 1

\* C14: a _run_pipeline call whose every attempt failed made exactly
\* max_retries + 1 attempts (4 for max_retries = 3) and slept between
\* consecutive attempts only, each time longer than before (2, 4, 8 seconds);
\* it did not sleep after the last attempt; and it ended in failure.
C14_RetryExhaustion ==
    ~lastRun.ok =>
        /\ lastRun.attempts = max_retries + 1
        /\ Len(lastRun.slept) = lastRun.attempts - 1
        /\ \A i \in 1..(Len(lastRun.slept) - 1) : lastRun.slept[i] < lastRun.slept[i + 1]
        /\ max_retries = 3 => lastRun.slept = <<2, 4, 8>>

\* a pipeline failed on every attempt and the worker reported the failure
C14_Witness ==
    /\ ~lastRun.ok
    /\ lastRun.attempts = 4
    /\ \E id \in RecordIds : reported[id] = <<"failed">>

\* C15: a task that ended in failure is marked failed once, the error
\* counters of the workers have gone up by exactly one for it, no result
\* file exists for it, and it is not in the queue again: a record that a
\* worker has taken is never in the queue afterwards.
C15_FailureIsTerminal ==
    /\ \A id \in RecordIds :
           /\ taken[id] > 0 => ~InQueue(id)
           /\ reported[id] # <<>> => Held(id) = {}
           /\ reported[id] = <<"failed">> => results[id] = 0
           /\ Len(reported[id]) <= 1
    /\ crashes = 0 =>
           ErrorCounts(Workers) =
               Cardinality({id \in RecordIds : reported[id] = <<"failed">>})

\* the retries of a task were exhausted, the task is marked failed, its worker
\* counts one error, and the queue holds a later record
C15_Witness ==
    /\ crashes = 0
    /\ ~lastRun.ok
    /\ \E id \in RecordIds : reported[id] = <<"failed">> /\ ~InQueue(id)
    /\ \E w \in Workers : worker[w].stats.error_count = 1
                          /\ worker[w].stats.processed_count = 1
    /\ queue # <<>>

\* C24: whenever a worker has finished handling a dequeued record, on every
\* exit path (pipeline success, retries exhausted, failure while writing the
\* temporary file, failure while saving the result), no temporary file of
\* that record remains in the worker's temp directory.
C24_NoTempFileRemains ==
    \A id \in RecordIds : reported[id] # <<>> => id \notin temp_dir

\* C25: a task counts as a success only after its result artifact has been
\* persisted: for each task whose handling incremented success_count, a
\* result file keyed by its task id exists.
C25_SuccessHasResult ==
    \A id \in RecordIds :
        (\E i \in DOMAIN reported[id] : reported[id][i] = "success")
        => results[id] > 0

\* worker w ends the handling of the record it holds in failure
ProcessingFails(w) ==
    /\ worker[w].pc = "processing"
    /\ reported'[IdOf(worker[w].item)] =
           Append(reported[IdOf(worker[w].item)], "failed")

\* worker w dequeues an element it cannot parse
DropsItem(w) == unparsed'[w] = unparsed[w] + 1

\* C26: a failure of a worker on one record (unparseable element, temp-file
\* failure, pipeline failure after all retries) removes nothing from the
\* queue but the element the worker had dequeued, changes neither the state
\* and counters of any other worker nor the outcomes and results of other
\* records, and leaves the failing worker at the top of its loop, about to
\* dequeue the next record.
C26_FailureIsLocal ==
    [][\A w \in Workers :
          /\ ProcessingFails(w) =>
                /\ queue' = queue
                /\ \A v \in Workers \ {w} : worker'[v] = worker[v] /\ unparsed'[v] = unparsed[v]
                /\ \A id \in RecordIds \ {IdOf(worker[w].item)} :
                       reported'[id] = reported[id]
                /\ results' = results /\ taken' = taken
                /\ worker'[w].pc = "poll"
          /\ DropsItem(w) =>
                /\ queue' = BRPopRest(queue)
                /\ \A v \in Workers \ {w} : worker'[v] = worker[v] /\ unparsed'[v] = unparsed[v]
                /\ reported' = reported /\ results' = results /\ taken' = taken
                /\ worker'[w] = worker[w] /\ worker'[w].pc = "poll"]_vars

\* one worker dropped an unparseable element, failed on the first record and
\* went on to complete the second, while the other worker was never touched
C26_Witness ==
    \E w \in Workers :
        /\ unparsed[w] = 1
        /\ reported[<<"upload", 1>>] = <<"failed">>
        /\ reported[<<"upload", 2>>] = <<"success">>
        /\ worker[w].stats.processed_count = 2
        /\ worker[w].stats.error_count = 1
        /\ \A v \in Workers \ {w} : worker[v] = FreshWorker /\ unparsed[v] = 0

RECURSIVE Total(_, _)
Total(f, S) ==
    IF S = {} THEN 0
    ELSE LET x == CHOOSE y \in S : TRUE
         IN  f[x] + Total(f, S \ {x})

\* C38: no element leaves the queue unaccounted for: when the workers are
\* between two iterations, the elements their brpop calls have returned so
\* far, parseable or not, are as many as their success and error counts
\* together.
C38_NoRecordUnaccounted ==
    (\A w \in Workers : worker[w].pc = "poll") =>
        Total([w \in Workers |-> worker[w].stats.success_count
                                   + worker[w].stats.error_count], Workers)
        = Total(taken, RecordIds) + Total(unparsed, Workers)

\* the record was dequeued once, its handling has ended, and one outcome
\* was recorded for it
Outcome(id) == taken[id] = 1 /\ Held(id) = {} /\ Len(reported[id]) = 1

\* C36, as claimed: if at least one worker keeps running, every record
\* admitted to the queue is eventually dequeued and its handling ends with
\* exactly one outcome recorded.
C36_LivenessAsClaimed ==
    (\E w \in Workers : [](worker[w].pc # "dead"))
        => \A k \in 1..MaxTasks : (InQueue(<<"upload", k>>) ~> Outcome(<<"upload", k>>))

\* C36: if at least one worker keeps running and no worker process dies
\* while it holds a record, every record admitted to the queue is
\* eventually dequeued and its handling ends with exactly one outcome
\* recorded; a worker that dies between two records takes nothing with it.
C36_Liveness ==
    ((\E w \in Workers : [](worker[w].pc # "dead")) /\ [](lost = {}))
        => \A k \in 1..MaxTasks : (InQueue(<<"upload", k>>) ~> Outcome(<<"upload", k>>))

\* a worker has died between two records, and the record admitted to the
\* queue has its outcome
C36_Witness ==
    /\ crashes = 1
    /\ lost = {}
    /\ \E id \in RecordIds : Outcome(id) /\ ~InQueue(id)

\* C40: shutdown is not undone by the monitor: from the first statement of
\* stop_workers until start_workers is called again no process is spawned
\* and running stays False, and whenever stop_workers has returned and
\* start_workers was not called again, no worker process is alive and the
\* worker list is empty.
C40_ShutdownNotUndone ==
    [][/\ (~running /\ starts' = starts) => (spawned' = spawned /\ ~running')
       /\ (~running' /\ stop'.pc = "idle") => (alive' = {} /\ workers' = <<>>)]_vars

\* stop_workers has returned after the monitor had replaced a dead worker,
\* and a process that was alive when it began is gone
C40_Witness ==
    /\ ~running
    /\ stop.pc = "idle"
    /\ manager_stats.restarts >= 1
    /\ \E k \in DOMAIN log : log[k].op = "terminate"
    /\ alive = {}
    /\ workers = <<>>

\* C39: with the producers calling enqueue_attachment concurrently, the
\* LLEN check and the LPUSH being separate steps, the queue is never longer
\* than max_queue_size + P - 1, P the number of producers.
C39_BoundedOvershoot ==
    Len(queue) <= max_queue_size + Cardinality(Producers) - 1

\* both producers passed the check on a queue one short of its limit and
\* both pushed: the queue is one over its limit
C39_Witness ==
    /\ Len(queue) = max_queue_size + Cardinality(Producers) - 1
    /\ queue[1].prod # queue[2].prod
    /\ {queue[1].via, queue[2].via} = {"single", "fallback"}
    /\ \A p \in Producers : prod[p].current_size = max_queue_size - 1

\* C30: no failure inside an ingestion cycle or a worker iteration ends the
\* long-running process: whatever fails, the monitor is idle again and again,
\* the scheduler's later ticks all run process_emails (of a configured
\* monitor: in demo mode the call returns at once), and again and again no
\* worker is inside an iteration: each is back at the top of its loop.
C30_NoFailureEscapes ==
    []<>(/\ AllIdle
         /\ azure_configured => started = MaxCycles
         /\ \A w \in Workers : worker[w].pc # "processing")

\* the handling of a message raised out of the message loop and ended the
\* cycle, the cycle of the next tick failed to authenticate, and the monitor
\* is idle again
C30_Witness ==
    /\ last.msg # 0 /\ last.escaped
    /\ started = MaxCycles /\ AllIdle
    /\ authFailure # "none"
    /\ stats.errors >= 2

(***************************************************************************)
(* Properties of the handling of a message (SpecMessage).                  *)
(***************************************************************************)

\* the attachments of the last message of the given kinds
Those(kinds) == {k \in DOMAIN last.atts : last.atts[k] \in kinds}

\* the first n of a set of attachments, in the order of the message
FirstOf(idx, n) == {k \in idx : Cardinality({j \in idx : j <= k}) <= n}

\* the cycle has left the message loop by its end, not by an exception
LoopFinished == cycle["timer"].pc = "idle" /\ stats.total_runs = 1

\* C16: when the download of an attachment yields empty bytes and no
\* attachment of the message raises, the empty one is neither enqueued nor
\* saved and the others are treated as if it were not there: in direct mode
\* every other attachment of an allowed type is saved, in queue mode the
\* size-valid ones are enqueued in order as far as the queue has room (all
\* of them when it has room for all); the handling counts no error, the loop
\* goes on, and the finished cycle has counted every fetched message once.
C16_EmptyDownloadIsolated ==
    (/\ last.msg # 0
     /\ last.fault = "none"
     /\ Those({"empty"}) # {}
     /\ Those({"raise"}) = {})
    => /\ last.kept \cap Those({"empty"}) = {}
       /\ ~last.queue_mode => last.kept = Those({"ok", "big"})
       /\ last.queue_mode => last.kept = FirstOf(Those({"ok"}), last.room)
       /\ ~last.raised /\ ~last.escaped
       /\ last.errors = 0 /\ last.queue_errors = 0
       /\ cycle["timer"].pc = "processing" \/ LoopFinished
       /\ LoopFinished =>
             /\ stats.messages_processed = Len(mailbox)
             /\ \A m \in 1..Len(mailbox) : handed[m] = 1

\* a message of two attachments, the first downloaded empty, was handled in
\* queue mode: the second is on the queue, and the cycle has finished
C16_Witness ==
    /\ last.atts = <<"empty", "ok">>
    /\ last.fault = "none"
    /\ last.queue_mode
    /\ last.kept = {2}
    /\ LoopFinished
    /\ stats.messages_processed = 2

\* C17: an exception raised while handling one attachment is caught for
\* that attachment only: the other attachments of the message are handled
\* as if the raising one were not there (saved in direct mode, enqueued as
\* far as the queue admits them in queue mode) and the loop over the
\* messages goes on.
C17_AttachmentExceptionIsolated ==
    (/\ last.msg # 0
     /\ last.fault = "none"
     /\ Those({"raise"}) # {})
    => /\ ~last.queue_mode => last.kept = Those({"ok", "big"})
       /\ last.queue_mode => last.kept = FirstOf(Those({"ok"}), last.room)
       /\ ~last.escaped

\* C18: an exception raised while handling one message adds one to
\* stats['errors'] and the loop goes on with the next message, in queue mode
\* and in direct mode.
C18_MessageErrorCounted ==
    (last.msg # 0 /\ last.raised) => (last.errors = 1 /\ ~last.escaped)

\* C20: a cycle that finished its message loop with no exception has added
\* the number of fetched messages to messages_processed, and has added to
\* attachments_queued (queue mode) the number of records that entered the
\* queue, to attachments_processed (direct mode) the number of files saved;
\* the other attachment counter is unchanged.
C20_ConsistentStats ==
    (LoopFinished /\ ~tally.raised)
    => /\ stats.messages_processed = Len(mailbox)
       /\ \A m \in 1..Len(mailbox) : handed[m] = 1
       /\ stats.attachments_queued = tally.attachments_queued
       /\ stats.attachments_processed = tally.attachments_processed
       /\ use_redis_queue =>
             /\ tally.attachments_queued = tally.pushed
             /\ tally.pushed = Len(queue)
             /\ tally.attachments_processed = 0
       /\ ~use_redis_queue =>
             /\ tally.attachments_processed = tally.saved
             /\ tally.attachments_queued = 0
             /\ queue = <<>>

\* two messages were fetched, the first with two allowed attachments, the
\* second with none, in queue mode: both counters are 2, one summary lists
\* two attachments, the second message left none
C20_Witness ==
    /\ LoopFinished /\ ~tally.raised
    /\ use_redis_queue
    /\ Len(mailbox) = 2
    /\ last.msg = 2 /\ last.atts = <<>> /\ last.summary = 0
    /\ tally.summaries = <<2>>
    /\ stats.messages_processed = 2
    /\ stats.attachments_queued = 2
    /\ Len(queue) = 2

\* C22: the attachments the enqueue summary of a message lists as enqueued
\* are exactly those whose record enqueue_multiple_attachments appended to
\* the queue.
C22_SummaryListsAdmitted ==
    (last.msg # 0 /\ last.queue_mode /\ last.summary > 0)
    => last.listed = last.kept

\* the attachments of the last message for which a record was built and
\* which enqueue_multiple_attachments did not append (too large, queue full)
Rejected == IF last.queue_mode /\ ~last.raised /\ last.fault = "none"
            THEN Those({"ok", "big"}) \ last.kept
            ELSE {}

\* C23: every enqueue rejection of an attachment is counted in the
\* statistics of the ingestion (an error counter grows by the number of
\* rejected attachments), and the rejected attachment is not on the queue.
C23_RejectionCountedAndDropped ==
    (last.msg # 0 /\ Rejected # {})
    => /\ last.errors + last.queue_errors = Cardinality(Rejected)
       /\ \A k \in Rejected : k \notin last.kept

(***************************************************************************)
(* Properties of the wire format (SpecWire).                               *)
(***************************************************************************)

\* C13: from_dict(x.to_dict()) equals x in attachment_content and in every
\* other field, and so does the record _parse_queue_item rebuilds from the
\* JSON bytes of x.to_dict().
C13_WireRoundTrip ==
    /\ wire_pc \in {"direct", "raw", "parsed"} => direct = attachment_data
    /\ wire_pc = "parsed" => parsed = attachment_data

\* a record whose content holds every byte value and whose texts hold a
\* double quote has come back from _parse_queue_item
C13_Witness ==
    /\ wire_pc = "parsed"
    /\ attachment_data.attachment_content = AllByteValues
    /\ parsed.attachment_content = AllByteValues
    /\ attachment_data.task_id = <<34, 233>>

(***************************************************************************)
(* Properties of the attachment queue (SpecQueue).                         *)
(***************************************************************************)

\* the record of the queue that stands for record r of a call
SameRecord(a, r) == a.prod = r.prod /\ a.seq = r.seq /\ a.size = r.size

\* an enqueue_attachment call of the upload handler has just returned
SingleDone(p) == prod[p].pc = "done" /\ prod[p].op = "single" /\ ~prod[p].stale

\* an enqueue_multiple_attachments call has just returned
BatchDone(p) == prod[p].pc = "done" /\ prod[p].op = "batch" /\ ~prod[p].stale

\* C7: admission boundary of enqueue_attachment.  A record of size
\* max_attachment_size + 1 is rejected; a record that finds the queue at
\* max_queue_size is rejected and the call leaves the queue as it was; a
\* record of size up to max_attachment_size that finds the queue below
\* max_queue_size is admitted (the store answering), and the call leaves the
\* queue one longer with the record at its left end, so that a queue at
\* max_queue_size - 1 becomes exactly max_queue_size long.  The call returns
\* True exactly when it appended the record.  The effect on the queue is that
\* of the call: it is stated where no dequeue or clear fell into the call.
C7_AdmissionBoundary ==
    \A p \in Producers :
        SingleDone(p) =>
            LET f == prod[p]
                r == f.fb[1]
            IN  /\ r.size >= max_attachment_size + 1 =>
                       (~f.result /\ f.pushed = <<>>)
                /\ f.current_size >= max_queue_size =>
                       (~f.result /\ f.pushed = <<>>)
                /\ (/\ ~f.err
                    /\ r.size <= max_attachment_size
                    /\ f.current_size >= 0
                    /\ f.current_size <= max_queue_size - 1) =>
                       (f.result /\ Len(f.pushed) = 1 /\ SameRecord(f.pushed[1], r))
                /\ f.result <=> f.pushed # <<>>
                /\ (~f.disturbed /\ ~f.result) => queue = f.qBefore
                /\ (~f.disturbed /\ f.result) =>
                       /\ queue = f.pushed \o f.qBefore
                       /\ Len(f.qBefore) = max_queue_size - 1 =>
                              Len(queue) = max_queue_size

\* a record of exactly max_attachment_size, offered to a queue of exactly
\* max_queue_size - 1 records, was admitted and the queue is now full
C7_Witness ==
    \E p \in Producers :
        /\ SingleDone(p)
        /\ prod[p].fb[1].size = max_attachment_size
        /\ Len(prod[p].qBefore) = max_queue_size - 1
        /\ ~prod[p].disturbed
        /\ prod[p].result
        /\ Len(queue) = max_queue_size

\* C8: with one producer at a time and any number of consumers, the queue is
\* never longer than max_queue_size and holds no record larger than
\* max_attachment_size.
C8_QueueBounded ==
    /\ Len(queue) <= max_queue_size
    /\ \A k \in 1..Len(queue) : queue[k].size <= max_attachment_size

\* the queue is full again after a worker has dequeued, and a record of a
\* pipelined batch is in it
C8_Witness ==
    /\ Len(queue) = max_queue_size
    /\ \E p \in Producers : lastDeq[p] > 0
    /\ \E k \in 1..Len(queue) : queue[k].via = "pipe"

\* the size-valid records of a batch, as the claim counts them
SizeValid(batch) == {k \in 1..Len(batch) : batch[k].size <= max_attachment_size}

\* C9 as claimed: with a single producer (the store answering), the count
\* enqueue_multiple_attachments returns equals min(number of size-valid
\* records, max_queue_size - length before the call) and equals the increase
\* in queue length over the call.
C9_CountIsMinAsClaimed ==
    \A p \in Producers :
        (BatchDone(p) /\ ~prod[p].err) =>
            /\ prod[p].count = Min(Cardinality(SizeValid(prod[p].batch)),
                                   max_queue_size - Len(prod[p].qBefore))
            /\ Len(queue) = Len(prod[p].qBefore) + prod[p].count

\* C9 amended: the returned count is the number of records the call appended;
\* the appended records are size-valid records of the batch, in batch order;
\* while the store answers, the count is at least min(size-valid,
\* max_queue_size - length before the call), and all size-valid records are
\* appended when the call saw them fit; and when no dequeue or clear falls
\* into the call, the count equals that minimum and the queue has grown by
\* exactly the appended records.
C9_CountIsAppended ==
    \A p \in Producers :
        BatchDone(p) =>
            LET f == prod[p]
                nvalid == Cardinality(SizeValid(f.batch))
                room == max_queue_size - Len(f.qBefore)
            IN  /\ f.count = Len(f.pushed)
                /\ \A k \in 1..Len(f.pushed) :
                       /\ f.pushed[k].size <= max_attachment_size
                       /\ \E j \in 1..Len(f.batch) : SameRecord(f.pushed[k], f.batch[j])
                /\ \A k \in 1..(Len(f.pushed) - 1) : f.pushed[k].seq < f.pushed[k + 1].seq
                /\ ~f.err =>
                       /\ f.count >= Min(nvalid, room)
                       /\ (f.batch_current_size + nvalid <= max_queue_size) =>
                              f.count = nvalid
                /\ (~f.err /\ ~f.disturbed) =>
                       /\ f.count = Min(nvalid, room)
                       /\ Len(queue) = Len(f.qBefore) + f.count

\* a batch that did not fit was admitted one by one until the queue was full:
\* some but not all of its size-valid records were appended
C9_Witness ==
    \E p \in Producers :
        /\ BatchDone(p)
        /\ ~prod[p].err
        /\ ~prod[p].disturbed
        /\ prod[p].count > 0
        /\ prod[p].count < Cardinality(SizeValid(prod[p].batch))
        /\ Len(queue) = max_queue_size

\* C10: FIFO per producer.  Of two records of the same producer in the queue
\* the one built earlier is nearer the end the workers dequeue from, and no
\* record still in the queue is older than a record of its producer that a
\* worker has already dequeued.
C10_FifoPerProducer ==
    /\ \A j, k \in 1..Len(queue) :
           (j < k /\ queue[j].prod = queue[k].prod) => queue[j].seq > queue[k].seq
    /\ \A k \in 1..Len(queue) : queue[k].seq > lastDeq[queue[k].prod]

\* a worker has dequeued the first record of a batch that was enqueued one by
\* one while the next record of the same batch still waits in the queue
C10_Witness ==
    \E k \in 1..Len(queue) :
        /\ queue[k].prod = "mail"
        /\ queue[k].via = "fallback"
        /\ lastDeq["mail"] > 0
        /\ queue[k].seq = lastDeq["mail"] + 1

(***************************************************************************)
(* Properties of the Worker Manager (SpecManager, SpecManagerFair).        *)
(***************************************************************************)

\* the slots whose handle the step replaces
Replaced == {i \in DOMAIN workers : i \in DOMAIN workers' /\ workers'[i] # workers[i]}

\* C27: while the Worker Manager is running, every worker that dies is
\* eventually replaced by a freshly spawned worker in the same slot; each
\* replacement adds one to the restarts counter and leaves the number of
\* slots as it is, and while the manager runs that number is num_workers.
C27_SelfHealing ==
    /\ \A i \in Slots :
          (running /\ i \in DeadSlots)
          ~> (~running \/ (i \in DOMAIN workers /\ workers[i] \in alive))
    /\ [][manager_stats'.restarts # manager_stats.restarts =>
            /\ Len(workers') = Len(workers)
            /\ manager_stats'.restarts = manager_stats.restarts + Cardinality(Replaced)
            /\ \A i \in Replaced : /\ workers[i] \notin alive
                                   /\ workers'[i] > spawned
                                   /\ workers'[i] \in alive']_vars
    /\ [](running => Len(workers) = num_workers)

\* the events of the last stop_workers up to the k-th
Before(k) == {log[j] : j \in 1..(k - 1)}

\* C28: stop_workers sends the termination signal to every live worker
\* before it waits for any, waits for each worker of the list, and kills
\* only a worker that was still alive when its wait timed out; when it has
\* returned, running is False, the list is empty and no process the manager
\* started is alive.
C28_ShutdownSequence ==
    /\ \A k \in DOMAIN log :
          /\ log[k].op = "terminate" => \A e \in Before(k) : e.op = "terminate"
          /\ log[k].op = "kill" =>
                /\ k > 1 /\ log[k - 1] = [op |-> "timeout", pid |-> log[k].pid]
                /\ [op |-> "terminate", pid |-> log[k].pid] \in Before(k)
    /\ stop.pc = "joining" =>
          /\ ~running
          /\ \A pid \in stop.live \cap Handles :
                [op |-> "terminate", pid |-> pid] \in Before(Len(log) + 1)
          /\ \A i \in 1..(stop.i - 1) :
                /\ [op |-> "join", pid |-> workers[i]] \in Before(Len(log) + 1)
                /\ workers[i] \notin alive
    /\ (stop.pc = "idle" /\ ~running) => workers = <<>> /\ alive = {}

\* a stop_workers call has returned that found one worker dead, saw one exit
\* within the grace period and had to kill another
C28_Witness ==
    /\ stop.pc = "idle" /\ ~running
    /\ \E k \in DOMAIN log : log[k].op = "kill"
    /\ \E k \in DOMAIN log : log[k].op = "join" /\ (k = 1 \/ log[k - 1].op # "kill")
    /\ manager_stats.workers_stopped >= num_workers

\* C29: start_workers on a stopped manager leaves exactly num_workers
\* handles, running = True and workers_started greater by num_workers;
\* start_workers on a running manager starts no process and changes neither
\* the list nor the counters.
C29_StartWorkers ==
    [][starts' = starts + 1 =>
          IF running
          THEN /\ running' /\ workers' = workers /\ manager_stats' = manager_stats
               /\ spawned' = spawned /\ alive' = alive
          ELSE /\ running'
               /\ Len(workers') = num_workers
               /\ manager_stats'.workers_started =
                     manager_stats.workers_started + num_workers]_vars

(***************************************************************************)
(* Properties of Direct mode, of skipped messages and of the queue's       *)
(* service endpoints (SpecDirect, SpecMessage, SpecQueue, SpecPeek).       *)
(***************************************************************************)

\* C31: in Direct mode the handlings of one message (same id, same
\* attachments) leave one message directory and in it one file per
\* attachment, however often the message is handled.
C31_OneStoredCopy ==
    (last.msg # 0 /\ ~last.queue_mode) =>
        /\ Cardinality(message_files.dirs) <= 1
        /\ \A f, g \in message_files.files : f.name = g.name => f = g

\* C32: clear_queue leaves the queue empty and returns the number of records
\* the queue held just before the call.
C32_ClearReturnsCount ==
    [][ClearQueue => (queue' = <<>> /\ removed_count' = Len(queue))]_vars

\* the records the next k dequeues return, in that order
RECURSIVE NextDequeues(_, _)
NextDequeues(q, k) ==
    IF k = 0 \/ q = <<>> THEN <<>>
    ELSE <<BRPopValue(q)>> \o NextDequeues(BRPopRest(q), k - 1)

C34_SkippedWithoutEffect ==
    [][(handed' # handed /\ given'.atts = <<>>) =>
          /\ queue' = queue
          /\ ~last'.message_dir
          /\ message_files'.dirs \subseteq message_files.dirs
          /\ message_files'.files \subseteq message_files.files
          /\ last'.kept = {} /\ last'.summary = 0 /\ last'.listed = {}
          /\ stats'.attachments_queued = stats.attachments_queued
          /\ stats'.attachments_processed = stats.attachments_processed
          /\ stats'.queue_errors = stats.queue_errors]_vars

\* in Direct mode the second message of the cycle had no attachments, after
\* a first one whose attachment was saved
C34_Witness ==
    /\ ~use_redis_queue
    /\ last.msg = 2 /\ last.fault = "none" /\ last.atts = <<>>
    /\ tally.saved = 1 /\ stats.attachments_processed = 1
    /\ message_files = NoFiles

====
